---- MODULE Spec2Model ----
(***************************************************************************)
(* Banker's-algorithm resource manager of os_simulator.py:                 *)
(* Process, BankerAlgorithm._is_safe_state, request_resources and          *)
(* release_resources.                                                      *)
(*                                                                         *)
(* Resource vectors are sequences indexed 1..num_resources (the source     *)
(* indexes them 0..num_resources-1); process ids are 0-based as in the     *)
(* source, because they appear in the returned safe sequence.              *)
(***************************************************************************)
EXTENDS Integers, Sequences, FiniteSets, TLC

VARIABLES
    total,      \* total_resources handed to BankerAlgorithm at construction
    available,  \* BankerAlgorithm.available
    processes,  \* BankerAlgorithm.processes: pid -> Process fields
    pc,         \* position of the manager call that holds BankerAlgorithm.lock
    cur,        \* arguments and loop index of that call
    ret,        \* what that call is returning (NoResult when no call is active)
    lock,       \* the thread that holds BankerAlgorithm.lock, or Free
    plock,      \* pid -> the thread that holds that Process.lock, or Free
    running,    \* MainWindow.running: the shared run flag is set
    paused,     \* pid -> ProcessThread.paused is set (the gate is open)
    at,         \* thread -> the statement it is at
    loc,        \* thread -> its local variables
    gui         \* the controller: thread list, timers, what it has displayed

threadvars == <<lock, plock, running, paused, at, loc, gui>>

vars == <<total, available, processes, pc, cur, ret, threadvars>>

\* Freshly constructed instances: NumProcs processes over the resource types
\* FreshRes (two of the program's four: CPU, Memory), each with 1..MaxTotal
\* units.
NumProcs == 2
MaxTotal == 1
FreshRes == {1, 2}

num_processes == Cardinality(DOMAIN processes)
num_resources == Len(available)

Pids == DOMAIN processes
Res == 1..num_resources

\* lock holders: an actor is named by its process id
Free == -1
Gui == -2

NoCall == [pid |-> -1, arg |-> <<>>, i |-> 0]
NoResult == [op |-> "none", ok |-> FALSE, msg |-> "", seq |-> <<>>]

----------------------------------------------------------------------------
(* class Process *)

\* Process.__init__
NewProcess(max_demand) ==
    [max_demand |-> max_demand,
     allocation |-> [j \in DOMAIN max_demand |-> 0],
     need       |-> max_demand,
     status     |-> "Waiting"]

\* Process.update_need
update_need(process) ==
    [process EXCEPT !.need =
        [j \in DOMAIN process.max_demand |->
            process.max_demand[j] - process.allocation[j]]]

\* Process._is_finished
is_finished(process) ==
    \A j \in DOMAIN process.need : process.need[j] = 0

----------------------------------------------------------------------------
(* BankerAlgorithm._is_safe_state *)

\* all() written for any()
can_allocate_any(process, work) ==
    \E j \in DOMAIN work : process.need[j] <= work[j]

\* can_allocate = all(need[j] <= work[j])
can_allocate(process, work) ==
    \A j \in DOMAIN work : process.need[j] <= work[j]

\* the scan taken from the highest id down
first_fit_descending(cand) ==
    CHOOSE i \in cand : \A k \in cand : i >= k

\* the for loop with its break: the first unfinished id, in ascending
\* order, whose need fits in work
first_fit(cand) ==
    CHOOSE i \in cand : \A k \in cand : i <= k

RECURSIVE safe_loop_nothing_reclaimed(_, _, _, _)
\* a `while found` loop that leaves out work[j] += allocation[j]
safe_loop_nothing_reclaimed(procs, work, finish, safe_sequence) ==
    LET cand == {i \in DOMAIN procs :
                    ~finish[i] /\ can_allocate(procs[i], work)}
    IN  IF cand = {}
        THEN [is_safe |-> \A i \in DOMAIN procs : finish[i],
              safe_sequence |-> safe_sequence]
        ELSE LET i == CHOOSE k \in cand : \A x \in cand : k <= x
             IN  safe_loop_nothing_reclaimed(procs, work,
                                             [finish EXCEPT ![i] = TRUE],
                                             Append(safe_sequence, i))

RECURSIVE safe_loop(_, _, _, _)
\* the `while found` loop: one pass per unfolding
safe_loop(procs, work, finish, safe_sequence) ==
    LET cand == {i \in DOMAIN procs :
                    ~finish[i] /\ can_allocate(procs[i], work)}
    IN  IF cand = {}
        THEN [is_safe |-> \A i \in DOMAIN procs : finish[i],
              safe_sequence |-> safe_sequence]
        ELSE LET i == first_fit(cand)
             IN  safe_loop(procs,
                           [j \in DOMAIN work |->
                               work[j] + procs[i].allocation[j]],
                           [finish EXCEPT ![i] = TRUE],
                           Append(safe_sequence, i))

_is_safe_state(avail, procs) ==
    safe_loop(procs, avail, [i \in DOMAIN procs |-> FALSE], <<>>)

\* BankerAlgorithm.is_safe_state on the current state
is_safe_state == _is_safe_state(available, processes)

----------------------------------------------------------------------------
(* BankerAlgorithm.request_resources, piece by piece.  A piece works on a  *)
(* pair st = [available, processes].                                       *)

exceeds_need(process, request) ==
    \E i \in DOMAIN request : request[i] > process.need[i]


\* all() written for any()
insufficient_all(avail, request) ==
    \A i \in DOMAIN request : request[i] > avail[i]

insufficient(avail, request) ==
    \E i \in DOMAIN request : request[i] > avail[i]

\* a tentative grant that leaves the pool as it was
grant_available_kept(st, request, i) ==
    st

\* self.available[i] -= request[i]
grant_available(st, request, i) ==
    [st EXCEPT !.available[i] = @ - request[i]]


\* tentative grant that leaves need to the later update_need
grant_process_stale_need(st, process_id, request, i) ==
    [st EXCEPT !.processes[process_id].allocation[i] = @ + request[i]]

\* with process.lock: allocation[i] += request[i]; need[i] -= request[i]
grant_process(st, process_id, request, i) ==
    [st EXCEPT !.processes[process_id].allocation[i] = @ + request[i],
               !.processes[process_id].need[i] = @ - request[i]]

\* one iteration of the tentative-allocation loop
grant_step(st, process_id, request, i) ==
    grant_process(grant_available(st, request, i), process_id, request, i)

RECURSIVE grant_from(_, _, _, _)
grant_from(st, process_id, request, i) ==
    IF i > Len(request) THEN st
    ELSE grant_from(grant_step(st, process_id, request, i),
                    process_id, request, i + 1)

\* a granted branch that marks the requester Running whatever its need
commit_running(procs, process_id) ==
    [procs EXCEPT ![process_id] =
        [update_need(procs[process_id]) EXCEPT !.status = "Running"]]

\* the granted branch: update_need, then Finished or Running
commit(procs, process_id) ==
    LET p == update_need(procs[process_id])
    IN  [procs EXCEPT ![process_id] =
            [p EXCEPT !.status =
                IF is_finished(p) THEN "Finished" ELSE "Running"]]


\* rollback that leaves self.available as the tentative grant made it
rollback_available_forgotten(st, request, i) ==
    st

\* self.available[i] += request[i]
rollback_available(st, request, i) ==
    [st EXCEPT !.available[i] = @ + request[i]]


\* rollback that restores need but leaves the allocation in place
rollback_process_need_only(st, process_id, request, i) ==
    [st EXCEPT !.processes[process_id].need[i] = @ + request[i]]

\* with process.lock: allocation[i] -= request[i]; need[i] += request[i]
rollback_process(st, process_id, request, i) ==
    [st EXCEPT !.processes[process_id].allocation[i] = @ - request[i],
               !.processes[process_id].need[i] = @ + request[i]]

\* one iteration of the rollback loop
rollback_step(st, process_id, request, i) ==
    rollback_process(rollback_available(st, request, i),
                     process_id, request, i)

RECURSIVE rollback_from(_, _, _, _)
rollback_from(st, process_id, request, i) ==
    IF i > Len(request) THEN st
    ELSE rollback_from(rollback_step(st, process_id, request, i),
                       process_id, request, i + 1)

\* a denied branch that leaves the status as it was
deny_status_kept(procs, process_id) ==
    [procs EXCEPT ![process_id] = update_need(procs[process_id])]

\* the end of the denied branch: update_need, then Waiting
deny(procs, process_id) ==
    [procs EXCEPT ![process_id] =
        [update_need(procs[process_id]) EXCEPT !.status = "Waiting"]]

Call(process_id, vector, i) ==
    [pid |-> process_id, arg |-> vector, i |-> i]

Result(op, ok, msg, seq) ==
    [op |-> op, ok |-> ok, msg |-> msg, seq |-> seq]


\* grant without consulting the safety check
decide_unchecked(t, process_id, request) ==
    [available |-> t.available,
     processes |-> commit(t.processes, process_id),
     ret |-> Result("request", TRUE, "granted",
                    _is_safe_state(t.available, t.processes).safe_sequence)]

\* rollback loop that starts one resource too late
decide_short_rollback(t, process_id, request) ==
    LET safe == _is_safe_state(t.available, t.processes)
    IN  IF safe.is_safe
        THEN [available |-> t.available,
              processes |-> commit(t.processes, process_id),
              ret |-> Result("request", TRUE, "granted", safe.safe_sequence)]
        ELSE LET u == rollback_from(t, process_id, request, 2)
             IN  [available |-> u.available,
                  processes |-> [u.processes EXCEPT
                                    ![process_id].status = "Waiting"],
                  ret |-> Result("request", FALSE, "unsafe", <<>>)]

\* what the safety check decides for the tentative state t
decide(t, process_id, request) ==
    LET safe == _is_safe_state(t.available, t.processes)
    IN  IF safe.is_safe
        THEN [available |-> t.available,
              processes |-> commit(t.processes, process_id),
              ret |-> Result("request", TRUE, "granted", safe.safe_sequence)]
        ELSE LET u == rollback_from(t, process_id, request, 1)
             IN  [available |-> u.available,
                  processes |-> deny(u.processes, process_id),
                  ret |-> Result("request", FALSE, "unsafe", <<>>)]

\* what the call does to st = [available, processes] and what it returns
request_outcome(st, process_id, request) ==
    IF exceeds_need(st.processes[process_id], request)
    THEN [available |-> st.available, processes |-> st.processes,
          ret |-> Result("request", FALSE, "exceeds_need", <<>>)]
    ELSE IF insufficient(st.available, request)
    THEN [available |-> st.available, processes |-> st.processes,
          ret |-> Result("request", FALSE, "insufficient", <<>>)]
    ELSE decide(grant_from(st, process_id, request, 1), process_id, request)

\* the whole call, under BankerAlgorithm.lock
request_resources(process_id, request) ==
    /\ pc = "idle"
    /\ \E o \in {request_outcome([available |-> available,
                                   processes |-> processes],
                                  process_id, request)} :
           /\ available' = o.available
           /\ processes' = o.processes
           /\ ret' = o.ret
    /\ pc' = "return"
    /\ UNCHANGED <<total, cur>>
    /\ UNCHANGED threadvars

----------------------------------------------------------------------------
(* BankerAlgorithm.release_resources *)


\* all() written for any()
over_release_all(process, release) ==
    \A i \in DOMAIN release : release[i] > process.allocation[i]

over_release(process, release) ==
    \E i \in DOMAIN release : release[i] > process.allocation[i]

\* a release loop that takes from the allocation and gives nothing back
released_pool_forgotten(st, process_id, release) ==
    LET p == update_need(
                [st.processes[process_id] EXCEPT !.allocation =
                    [i \in DOMAIN release |-> @[i] - release[i]]])
    IN  [available |-> st.available,
         processes |-> [st.processes EXCEPT ![process_id] =
                           [p EXCEPT !.status =
                               IF is_finished(p) THEN "Finished"
                               ELSE "Running"]]]

\* the release loop, then update_need and the status assignment
released(st, process_id, release) ==
    LET p == update_need(
                [st.processes[process_id] EXCEPT !.allocation =
                    [i \in DOMAIN release |-> @[i] - release[i]]])
    IN  [available |-> [i \in DOMAIN release |->
                           st.available[i] + release[i]],
         processes |-> [st.processes EXCEPT ![process_id] =
                           [p EXCEPT !.status =
                               IF is_finished(p) THEN "Finished"
                               ELSE "Running"]]]

\* what the call does to st = [available, processes] and what it returns
release_outcome(st, process_id, release) ==
    IF over_release(st.processes[process_id], release)
    THEN [available |-> st.available, processes |-> st.processes,
          ret |-> Result("release", FALSE, "over_release", <<>>)]
    ELSE LET r == released(st, process_id, release)
         IN  [available |-> r.available, processes |-> r.processes,
              ret |-> Result("release", TRUE, "released", <<>>)]

\* the whole call, under BankerAlgorithm.lock and the process's lock
release_resources(process_id, release) ==
    /\ pc = "idle"
    /\ \E o \in {release_outcome([available |-> available,
                                   processes |-> processes],
                                  process_id, release)} :
           /\ available' = o.available
           /\ processes' = o.processes
           /\ ret' = o.ret
    /\ pc' = "return"
    /\ UNCHANGED <<total, cur>>
    /\ UNCHANGED threadvars

----------------------------------------------------------------------------
(* BankerAlgorithm.is_safe_state: the check on the current state, under    *)
(* BankerAlgorithm.lock; nothing is changed.                               *)

is_safe_state_call ==
    /\ pc = "idle"
    /\ ret' = Result("is_safe_state", is_safe_state.is_safe, "",
                     is_safe_state.safe_sequence)
    /\ pc' = "return"
    /\ UNCHANGED <<total, available, processes, cur>>
    /\ UNCHANGED threadvars

----------------------------------------------------------------------------
(* Leaving a manager call: the `with self.lock` block ends and the result  *)
(* goes to the caller.                                                     *)

Return ==
    /\ pc = "return"
    /\ pc' = "idle"
    /\ ret' = NoResult
    /\ cur' = NoCall
    /\ UNCHANGED <<total, available, processes>>
    /\ UNCHANGED threadvars

----------------------------------------------------------------------------
(* Construction and the specification of the manager's calls *)

\* BankerAlgorithm.__init__ over the given processes
Constructed(total_resources, avail, procs) ==
    /\ total = total_resources
    /\ available = avail
    /\ processes = procs
    /\ pc = "idle"
    /\ cur = NoCall
    /\ ret = NoResult
    /\ lock = Free
    /\ plock = [i \in DOMAIN procs |-> Free]

\* MainWindow before start_simulation: no ProcessThread exists, the run
\* flag is clear, both timers are stopped
NoThreads ==
    /\ running = FALSE
    /\ paused = <<>>
    /\ at = <<>>
    /\ loc = <<>>
    /\ gui = [process_threads |-> {}, polling |-> FALSE]

\* a fresh run: every process as Process.__init__ leaves it, every unit
\* available, no process demanding more than exists
FreshInit ==
    \E total_resources \in [FreshRes -> 1..MaxTotal] :
        \E max_demands \in [0..(NumProcs - 1) -> [FreshRes -> 0..MaxTotal]] :
            /\ \A i \in DOMAIN max_demands : \A j \in FreshRes :
                   max_demands[i][j] <= total_resources[j]
            /\ Constructed(total_resources, total_resources,
                           [i \in DOMAIN max_demands |->
                               NewProcess(max_demands[i])])

\* The classic configuration: 5 processes, 3 resource types.
ClassicTotal == <<10, 5, 7>>
ClassicAvailable == <<3, 3, 2>>
ClassicMax ==
    (0 :> <<7, 5, 3>>) @@ (1 :> <<3, 2, 2>>) @@ (2 :> <<9, 0, 2>>) @@
    (3 :> <<2, 2, 2>>) @@ (4 :> <<4, 3, 3>>)
ClassicAllocation ==
    (0 :> <<0, 1, 0>>) @@ (1 :> <<2, 0, 0>>) @@ (2 :> <<3, 0, 2>>) @@
    (3 :> <<2, 1, 1>>) @@ (4 :> <<0, 0, 2>>)

\* a process holding `allocation`, as the grant of that allocation leaves it
Holding(max_demand, allocation) ==
    commit([p \in {0} |->
               [NewProcess(max_demand) EXCEPT !.allocation = allocation]],
           0)[0]

ClassicProcesses ==
    [i \in DOMAIN ClassicMax |-> Holding(ClassicMax[i], ClassicAllocation[i])]

ClassicInit ==
    Constructed(ClassicTotal, ClassicAvailable, ClassicProcesses)

\* the vectors tried on the classic configuration
ClassicVectors ==
    {<<1, 0, 2>>, <<4, 0, 0>>, <<0, 2, 0>>, <<3, 3, 0>>, <<0, 0, 0>>}

\* non-negative vectors a caller may pass
Vectors ==
    IF total = ClassicTotal THEN ClassicVectors
    ELSE [Res -> 0..MaxTotal]

Init == (FreshInit \/ ClassicInit) /\ NoThreads

Next ==
    \/ \E process_id \in Pids : \E request \in Vectors :
           request_resources(process_id, request)
    \/ \E process_id \in Pids : \E release \in Vectors :
           release_resources(process_id, release)
    \/ is_safe_state_call
    \/ Return

Spec == Init /\ [][Next]_vars

----------------------------------------------------------------------------
(* request_resources one loop iteration and one branch at a time: what a   *)
(* thread that takes only a process's lock can find between two of the     *)
(* call's lock acquisitions.  BankerAlgorithm.lock is held from            *)
(* RequestEnter to Return, so no other manager call starts in between and  *)
(* nobody reads self.available in between.                                 *)

St == [available |-> available, processes |-> processes]

\* the two validation checks
RequestEnter(process_id, request) ==
    /\ pc = "idle"
    /\ IF exceeds_need(processes[process_id], request)
       THEN /\ ret' = Result("request", FALSE, "exceeds_need", <<>>)
            /\ pc' = "return"
            /\ UNCHANGED cur
       ELSE IF insufficient(available, request)
       THEN /\ ret' = Result("request", FALSE, "insufficient", <<>>)
            /\ pc' = "return"
            /\ UNCHANGED cur
       ELSE /\ pc' = IF Len(request) = 0 THEN "check" ELSE "grant"
            /\ cur' = Call(process_id, request, 1)
            /\ UNCHANGED ret
    /\ UNCHANGED <<total, available, processes>>
    /\ UNCHANGED threadvars

\* one iteration of the tentative-allocation loop
GrantStep ==
    /\ pc = "grant"
    /\ LET t == grant_step(St, cur.pid, cur.arg, cur.i)
       IN  available' = t.available /\ processes' = t.processes
    /\ IF cur.i < Len(cur.arg)
       THEN pc' = "grant" /\ cur' = [cur EXCEPT !.i = @ + 1]
       ELSE pc' = "check" /\ UNCHANGED cur
    /\ UNCHANGED <<total, ret>>
    /\ UNCHANGED threadvars

\* the safety check, then the granted branch or the start of the rollback
SafetyCheck ==
    /\ pc = "check"
    /\ LET safe == _is_safe_state(available, processes)
       IN  IF safe.is_safe
           THEN /\ processes' = commit(processes, cur.pid)
                /\ ret' = Result("request", TRUE, "granted",
                                 safe.safe_sequence)
                /\ pc' = "return"
                /\ cur' = NoCall
           ELSE /\ pc' = IF Len(cur.arg) = 0 THEN "deny" ELSE "rollback"
                /\ cur' = [cur EXCEPT !.i = 1]
                /\ UNCHANGED <<processes, ret>>
    /\ UNCHANGED <<total, available>>
    /\ UNCHANGED threadvars

\* one iteration of the rollback loop
RollbackStep ==
    /\ pc = "rollback"
    /\ LET u == rollback_step(St, cur.pid, cur.arg, cur.i)
       IN  available' = u.available /\ processes' = u.processes
    /\ IF cur.i < Len(cur.arg)
       THEN pc' = "rollback" /\ cur' = [cur EXCEPT !.i = @ + 1]
       ELSE pc' = "deny" /\ UNCHANGED cur
    /\ UNCHANGED <<total, ret>>
    /\ UNCHANGED threadvars

\* the end of the unsafe branch
Deny ==
    /\ pc = "deny"
    /\ processes' = deny(processes, cur.pid)
    /\ ret' = Result("request", FALSE, "unsafe", <<>>)
    /\ pc' = "return"
    /\ cur' = NoCall
    /\ UNCHANGED <<total, available>>
    /\ UNCHANGED threadvars

NextSteps ==
    \/ \E process_id \in Pids : \E request \in Vectors :
           RequestEnter(process_id, request)
    \/ GrantStep
    \/ SafetyCheck
    \/ RollbackStep
    \/ Deny
    \/ \E process_id \in Pids : \E release \in Vectors :
           release_resources(process_id, release)
    \/ Return

SpecSteps == Init /\ [][NextSteps]_vars

----------------------------------------------------------------------------
(* The safety check as a function of the configuration: every combination *)
(* of available, allocation and need over AnyVals is put in front of      *)
(* is_safe_state, whether or not the manager's own calls can produce it.   *)

AnyProcs == 3
AnyVals == {0, 1}

RECURSIVE SumOver(_, _, _)
\* sum of f[i][j] over i in S
SumOver(f, S, j) ==
    IF S = {} THEN 0
    ELSE LET i == CHOOSE x \in S : TRUE
         IN  f[i][j] + SumOver(f, S \ {i}, j)

\* a process with the given allocation and need
AnyProcess(allocation, need) ==
    Holding([j \in DOMAIN allocation |-> allocation[j] + need[j]],
            allocation)

AnyInit ==
    \E avail \in [FreshRes -> AnyVals] :
        \E allocation \in [0..(AnyProcs - 1) -> [FreshRes -> AnyVals]] :
            \E need \in [0..(AnyProcs - 1) -> [FreshRes -> AnyVals]] :
                Constructed([j \in FreshRes |->
                                avail[j]
                                + SumOver(allocation, DOMAIN allocation, j)],
                            avail,
                            [i \in DOMAIN allocation |->
                                AnyProcess(allocation[i], need[i])])

NextAny ==
    \/ is_safe_state_call
    \/ Return

\* the manager on any such configuration, with no thread started
AnyStart == AnyInit /\ NoThreads

SpecAny == AnyStart /\ [][NextAny]_vars

----------------------------------------------------------------------------
(* MainWindow.generate_random_max_demand: the demand lists it can return   *)
(* for the given totals.                                                   *)

Minimum(a, b) == IF a <= b THEN a ELSE b
Maximum(a, b) == IF a >= b THEN a ELSE b

\* the largest component of a vector
largest(v) ==
    CHOOSE x \in {v[j] : j \in DOMAIN v} : \A j \in DOMAIN v : x >= v[j]

\* upper_limit = min(max_possible, max(1, max_possible * 2 // 3))
upper_limit(max_possible) ==
    Minimum(max_possible, Maximum(1, (max_possible * 2) \div 3))

\* one process's list after the draws and the all-zero repair, which turns
\* an all-zero list into one with a single 1
Demands(total_resources) ==
    {d \in [DOMAIN total_resources ->
               0..(CHOOSE t \in {total_resources[j] :
                                    j \in DOMAIN total_resources} :
                      \A j \in DOMAIN total_resources :
                          t >= total_resources[j])] :
        /\ \A j \in DOMAIN d : d[j] <= upper_limit(total_resources[j])
        /\ \E j \in DOMAIN d : d[j] > 0}

\* a scale factor turned upside down, total_demand / max_allowed
scale_up(value, max_allowed, total_demand) ==
    Maximum(0, (value * total_demand) \div max_allowed)

\* max(0, int(value * (max_allowed / total_demand))): the product is never
\* negative, and int() cuts it down to the whole part of value *
\* max_allowed / total_demand
scale_down(value, max_allowed, total_demand) ==
    Maximum(0, (value * max_allowed) \div total_demand)

\* the per-resource scaling loop over the lists of all processes
scale_demands(total_resources, max_demands) ==
    [i \in DOMAIN max_demands |->
        [j \in DOMAIN total_resources |->
            LET total_demand == SumOver(max_demands, DOMAIN max_demands, j)
                max_allowed ==
                    (total_resources[j] * Cardinality(DOMAIN max_demands))
                        \div 2
            IN  IF total_demand > max_allowed
                THEN scale_down(max_demands[i][j], max_allowed, total_demand)
                ELSE max_demands[i][j]]]

\* the processes of the current run have demands the generator can return
\* for the current totals
GeneratedDemand ==
    \E max_demands \in [Pids -> Demands(total)] :
        \A i \in Pids :
            processes[i].max_demand
                = scale_demands(total, max_demands)[i]

----------------------------------------------------------------------------
(* MainWindow.initial_safe_allocation: before any thread exists, the first *)
(* processes of the safe sequence ask for a random part of their need.     *)

\* lines 522-538: random.randint(1, min(need_val, available_val)) where both
\* are positive, 0 elsewhere
initial_requests(process, avail) ==
    {request \in [DOMAIN avail -> 0..largest(avail)] :
        \A j \in DOMAIN avail :
            IF process.need[j] > 0 /\ avail[j] > 0
            THEN /\ request[j] >= 1
                 /\ request[j] <= Minimum(process.need[j], avail[j])
            ELSE request[j] = 0}

RECURSIVE initial_allocations(_, _, _)
\* lines 515-541 from position idx of the safe sequence on: every state
\* the pass can end in
initial_allocations(st, seq, idx) ==
    IF idx > Minimum(3, Cardinality(DOMAIN st.processes)) \/ idx > Len(seq)
    THEN {st}
    ELSE UNION {
        initial_allocations(
            IF \E j \in DOMAIN request : request[j] > 0
            THEN LET o == request_outcome(st, seq[idx], request)
                 IN  [available |-> o.available, processes |-> o.processes]
            ELSE st,
            seq, idx + 1) :
        request \in initial_requests(st.processes[seq[idx]], st.available)}

\* lines 511-513, then the pass
initial_safe_allocation(st) ==
    LET s == _is_safe_state(st.available, st.processes)
    IN  IF ~s.is_safe \/ s.safe_sequence = <<>> THEN {st}
        ELSE initial_allocations(st, s.safe_sequence, 1)

\* lines 552-564 of reset_simulation: new processes, a new manager, the
\* initial allocation
after_reset(total_resources, max_demands) ==
    initial_safe_allocation(
        [available |-> total_resources,
         processes |-> [i \in DOMAIN max_demands |->
                           NewProcess(max_demands[i])]])

----------------------------------------------------------------------------
(* The threads of a started simulation, one lock operation at a time: the  *)
(* ProcessThread of every process and the controller (the GUI thread).  A  *)
(* position is the source line the thread is at; a `with` statement is     *)
(* entered in one step, which waits for the lock, and left in another.     *)

max_iterations == 1

\* Two processes over one resource type with two units.  Demands of 2 and 2
\* are the smallest table in which a request can be unsafe (MainWindow's
\* five processes get there with generated demands: five demands of 2 over
\* the default total of 4); with demands of 1 and 1 both processes can be
\* Finished together.
ActorTotal == <<2>>
ActorDemands ==
    {(0 :> <<2>>) @@ (1 :> <<2>>), (0 :> <<1>>) @@ (1 :> <<1>>)}

\* threading.Lock.acquire proceeds when nobody holds the lock
can_acquire_always(holder) == TRUE

can_acquire(holder) == holder = Free

\* leaving a `with` block
release_kept(holder) == holder

release(holder) == Free

NoManagerCall ==
    [op |-> "none", available |-> <<>>, processes |-> <<>>]

\* ProcessThread.run's locals, and the locals of the manager call it makes
NoLocals ==
    [iteration |-> 0, request |-> <<>>, i |-> 0, need_val |-> 0,
     scan |-> <<>>, call |-> NoManagerCall]

\* the locals at the end of an iteration: only the counter lives on
cleared(locals) == [NoLocals EXCEPT !.iteration = locals.iteration]

goto(t, line) == at' = [at EXCEPT ![t] = line]

\* with self.lock:
acquire_lock(t) ==
    /\ can_acquire(lock)
    /\ lock' = t

\* with self.processes[i].lock:
acquire_process(t, i) ==
    /\ can_acquire(plock[i])
    /\ plock' = [plock EXCEPT ![i] = t]

release_process(i) == plock' = [plock EXCEPT ![i] = release(@)]

RECURSIVE ascending(_)
\* the ids of S in the order range() visits them
ascending(S) ==
    IF S = {} THEN <<>>
    ELSE LET i == CHOOSE x \in S : \A y \in S : x <= y
         IN  <<i>> \o ascending(S \ {i})

RECURSIVE scan_locks(_, _, _)
\* the process locks _is_safe_state takes, in order: one for each
\* can_allocate test, a second one for the process whose allocation is
\* added to work
scan_locks(procs, work, finish) ==
    LET unfinished == {i \in DOMAIN procs : ~finish[i]}
        cand == {i \in unfinished : can_allocate(procs[i], work)}
    IN  IF cand = {} THEN ascending(unfinished)
        ELSE LET i == first_fit(cand)
             IN  ascending({k \in unfinished : k < i}) \o <<i, i>> \o
                 scan_locks(procs,
                            [j \in DOMAIN work |->
                                work[j] + procs[i].allocation[j]],
                            [finish EXCEPT ![i] = TRUE])

\* the state a manager call finds when it gets BankerAlgorithm.lock
entered(op) ==
    [op |-> op, available |-> available, processes |-> processes]

\* line 171: while self.running.is_set() and iteration < max_iterations
Line171(t) ==
    /\ at[t] = "171"
    /\ IF running /\ loc[t].iteration < max_iterations
       THEN goto(t, "172")
       ELSE goto(t, "done")
    /\ UNCHANGED <<total, available, processes, pc, cur, ret>>
    /\ UNCHANGED <<lock, plock, running, paused, loc, gui>>

\* line 172: self.paused.wait()
Line172(t) ==
    /\ at[t] = "172"
    /\ paused[t]
    /\ goto(t, "174")
    /\ UNCHANGED <<total, available, processes, pc, cur, ret>>
    /\ UNCHANGED <<lock, plock, running, paused, loc, gui>>

\* lines 174-175 left out: the iteration goes on whatever the run flag
Line174_unchecked(t) ==
    /\ at[t] = "174"
    /\ goto(t, "179")
    /\ loc' = [loc EXCEPT ![t].iteration = @ + 1]
    /\ UNCHANGED <<total, available, processes, pc, cur, ret>>
    /\ UNCHANGED <<lock, plock, running, paused, gui>>

\* lines 174-177: the second test of the run flag, iteration += 1
Line174(t) ==
    /\ at[t] = "174"
    /\ IF ~running
       THEN goto(t, "done") /\ UNCHANGED loc
       ELSE /\ goto(t, "179")
            /\ loc' = [loc EXCEPT ![t].iteration = @ + 1]
    /\ UNCHANGED <<total, available, processes, pc, cur, ret>>
    /\ UNCHANGED <<lock, plock, running, paused, gui>>

\* line 179, Process.is_finished line 35: with self.lock
Line179(t) ==
    /\ at[t] = "179"
    /\ acquire_process(t, t)
    /\ goto(t, "36")
    /\ UNCHANGED <<total, available, processes, pc, cur, ret>>
    /\ UNCHANGED <<lock, running, paused, loc, gui>>

\* an actor that goes on to random.choice whether or not its process is
\* finished, lines 179-181 left out
Line36_finished_ignored(t) ==
    /\ at[t] = "36"
    /\ release_process(t)
    /\ \E line \in {"188", "217", "232"} : goto(t, line)
    /\ loc' = [loc EXCEPT ![t].request = <<>>, ![t].i = 1]
    /\ UNCHANGED <<total, available, processes, pc, cur, ret>>
    /\ UNCHANGED <<lock, running, paused, gui>>

\* Process.is_finished line 36, then line 180 or the random.choice of
\* line 183
Line36(t) ==
    /\ at[t] = "36"
    /\ release_process(t)
    /\ IF is_finished(processes[t])
       THEN goto(t, "180") /\ UNCHANGED loc
       ELSE /\ \E line \in {"188", "217", "232"} : goto(t, line)
            /\ loc' = [loc EXCEPT ![t].request = <<>>, ![t].i = 1]
    /\ UNCHANGED <<total, available, processes, pc, cur, ret>>
    /\ UNCHANGED <<lock, running, paused, gui>>

\* line 180, line 237: time.sleep, then the next iteration
Sleep(t) ==
    /\ at[t] \in {"180", "237"}
    /\ goto(t, "171")
    /\ UNCHANGED <<total, available, processes, pc, cur, ret>>
    /\ UNCHANGED <<lock, plock, running, paused, loc, gui>>

\* what no step of a ProcessThread changes
ActorFrame == UNCHANGED <<total, pc, cur, ret, running, paused, gui>>

\* request.append(v) and the next round of the loop of line 187, or, after
\* the last round, line 207: the call if some amount is positive
hint_appended(t, v) ==
    LET request == Append(loc[t].request, v)
    IN  /\ loc' = [loc EXCEPT ![t].request = request, ![t].i = @ + 1]
        /\ IF loc[t].i < num_resources THEN goto(t, "188")
           ELSE IF \E k \in DOMAIN request : request[k] > 0
                THEN goto(t, "90")
                ELSE goto(t, "212")

\* line 188: with process.lock
Line188(t) ==
    /\ at[t] = "188"
    /\ acquire_process(t, t)
    /\ goto(t, "189")
    /\ ActorFrame
    /\ UNCHANGED <<available, processes, lock, loc>>

\* lines 189-191 and 204-205: need_val = process.need[i]
Line189(t) ==
    /\ at[t] = "189"
    /\ release_process(t)
    /\ IF processes[t].need[loc[t].i] > 0
       THEN /\ loc' = [loc EXCEPT ![t].need_val =
                          processes[t].need[loc[t].i]]
            /\ goto(t, "192")
       ELSE hint_appended(t, 0)
    /\ ActorFrame
    /\ UNCHANGED <<available, processes, lock>>

\* line 192: with self.banker.lock
Line192(t) ==
    /\ at[t] = "192"
    /\ acquire_lock(t)
    /\ goto(t, "193")
    /\ ActorFrame
    /\ UNCHANGED <<available, processes, plock, loc>>

\* lines 193-203: available = self.banker.available[i], then the amount
\* random.randint(1, min(need_val, available)) or 0
Line193(t) ==
    /\ at[t] = "193"
    /\ lock' = release(lock)
    /\ IF available[loc[t].i] > 0
       THEN \E request_value \in
                1..Minimum(loc[t].need_val, available[loc[t].i]) :
                hint_appended(t, request_value)
       ELSE hint_appended(t, 0)
    /\ ActorFrame
    /\ UNCHANGED <<available, processes, plock>>

\* line 212: with process.lock
Line212(t) ==
    /\ at[t] = "212"
    /\ acquire_process(t, t)
    /\ goto(t, "213")
    /\ ActorFrame
    /\ UNCHANGED <<available, processes, lock, loc>>

\* lines 213-214: the "Waiting for resources" log line
Line213(t) ==
    /\ at[t] = "213"
    /\ release_process(t)
    /\ goto(t, "237")
    /\ loc' = [loc EXCEPT ![t] = cleared(@)]
    /\ ActorFrame
    /\ UNCHANGED <<available, processes, lock>>

\* line 208, request_resources line 90: with self.lock
Line90(t) ==
    /\ at[t] = "90"
    /\ acquire_lock(t)
    /\ loc' = [loc EXCEPT ![t].call = entered("request")]
    /\ goto(t, "93")
    /\ ActorFrame
    /\ UNCHANGED <<available, processes, plock>>

\* line 93: with process.lock
Line93(t) ==
    /\ at[t] = "93"
    /\ acquire_process(t, t)
    /\ goto(t, "94")
    /\ ActorFrame
    /\ UNCHANGED <<available, processes, lock, loc>>

\* lines 94-95: request exceeds need, return
Line94(t) ==
    /\ at[t] = "94"
    /\ release_process(t)
    /\ IF exceeds_need(processes[t], loc[t].request)
       THEN /\ lock' = release(lock)
            /\ loc' = [loc EXCEPT ![t] = cleared(@)]
            /\ goto(t, "237")
       ELSE goto(t, "97") /\ UNCHANGED <<lock, loc>>
    /\ ActorFrame
    /\ UNCHANGED <<available, processes>>

\* lines 97-98: insufficient resources, return; else the loop of line 100
Line97(t) ==
    /\ at[t] = "97"
    /\ IF insufficient(available, loc[t].request)
       THEN /\ lock' = release(lock)
            /\ loc' = [loc EXCEPT ![t] = cleared(@)]
            /\ goto(t, "237")
       ELSE /\ loc' = [loc EXCEPT ![t].i = 1]
            /\ goto(t, "101")
            /\ UNCHANGED lock
    /\ ActorFrame
    /\ UNCHANGED <<available, processes, plock>>

\* line 101: self.available[i] -= request[i]
Line101(t) ==
    /\ at[t] = "101"
    /\ available' = grant_available(St, loc[t].request, loc[t].i).available
    /\ goto(t, "102")
    /\ ActorFrame
    /\ UNCHANGED <<processes, lock, plock, loc>>

\* line 102: with process.lock
Line102(t) ==
    /\ at[t] = "102"
    /\ acquire_process(t, t)
    /\ goto(t, "103")
    /\ ActorFrame
    /\ UNCHANGED <<available, processes, lock, loc>>

\* lines 103-104, then the next round of the loop or line 106
Line103(t) ==
    /\ at[t] = "103"
    /\ processes' =
          grant_process(St, t, loc[t].request, loc[t].i).processes
    /\ release_process(t)
    /\ IF loc[t].i < num_resources
       THEN /\ loc' = [loc EXCEPT ![t].i = @ + 1]
            /\ goto(t, "101")
       ELSE goto(t, "106") /\ UNCHANGED loc
    /\ ActorFrame
    /\ UNCHANGED <<available, lock>>

\* line 106: self._is_safe_state() begins
Line106(t) ==
    /\ at[t] = "106"
    /\ loc' = [loc EXCEPT ![t].scan =
                  scan_locks(processes, available,
                             [i \in Pids |-> FALSE])]
    /\ goto(t, "67")
    /\ ActorFrame
    /\ UNCHANGED <<available, processes, lock, plock>>

\* lines 67 and 74: with self.processes[i].lock, for the next process the
\* scan visits; after the last one, line 108
Line67(t) ==
    /\ at[t] = "67"
    /\ IF loc[t].scan = <<>>
       THEN goto(t, "108") /\ UNCHANGED plock
       ELSE acquire_process(t, Head(loc[t].scan)) /\ goto(t, "68")
    /\ ActorFrame
    /\ UNCHANGED <<available, processes, lock, loc>>

\* lines 68-71 and 75-76: the read under the process's lock
Line68(t) ==
    /\ at[t] = "68"
    /\ release_process(Head(loc[t].scan))
    /\ loc' = [loc EXCEPT ![t].scan = Tail(@)]
    /\ goto(t, "67")
    /\ ActorFrame
    /\ UNCHANGED <<available, processes, lock>>

\* line 108: if is_safe
Line108(t) ==
    /\ at[t] = "108"
    /\ IF is_safe_state.is_safe
       THEN goto(t, "109") /\ UNCHANGED loc
       ELSE /\ loc' = [loc EXCEPT ![t].i = 1]
            /\ goto(t, "118")
    /\ ActorFrame
    /\ UNCHANGED <<available, processes, lock, plock>>

\* line 109: with process.lock
Line109(t) ==
    /\ at[t] = "109"
    /\ acquire_process(t, t)
    /\ goto(t, "110")
    /\ ActorFrame
    /\ UNCHANGED <<available, processes, lock, loc>>

\* lines 110-115: update_need, the status, return
Line110(t) ==
    /\ at[t] = "110"
    /\ processes' = commit(processes, t)
    /\ release_process(t)
    /\ lock' = release(lock)
    /\ loc' = [loc EXCEPT ![t] = cleared(@)]
    /\ goto(t, "237")
    /\ ActorFrame
    /\ UNCHANGED available

\* line 118: self.available[i] += request[i]
Line118(t) ==
    /\ at[t] = "118"
    /\ available' =
          rollback_available(St, loc[t].request, loc[t].i).available
    /\ goto(t, "119")
    /\ ActorFrame
    /\ UNCHANGED <<processes, lock, plock, loc>>

\* line 119: with process.lock
Line119(t) ==
    /\ at[t] = "119"
    /\ acquire_process(t, t)
    /\ goto(t, "120")
    /\ ActorFrame
    /\ UNCHANGED <<available, processes, lock, loc>>

\* lines 120-121, then the next round of the loop or line 122
Line120(t) ==
    /\ at[t] = "120"
    /\ processes' =
          rollback_process(St, t, loc[t].request, loc[t].i).processes
    /\ release_process(t)
    /\ IF loc[t].i < num_resources
       THEN /\ loc' = [loc EXCEPT ![t].i = @ + 1]
            /\ goto(t, "118")
       ELSE goto(t, "122") /\ UNCHANGED loc
    /\ ActorFrame
    /\ UNCHANGED <<available, lock>>

\* line 122: with process.lock
Line122(t) ==
    /\ at[t] = "122"
    /\ acquire_process(t, t)
    /\ goto(t, "123")
    /\ ActorFrame
    /\ UNCHANGED <<available, processes, lock, loc>>

\* lines 123-125: update_need, status Waiting, return
Line123(t) ==
    /\ at[t] = "123"
    /\ processes' = deny(processes, t)
    /\ release_process(t)
    /\ lock' = release(lock)
    /\ loc' = [loc EXCEPT ![t] = cleared(@)]
    /\ goto(t, "237")
    /\ ActorFrame
    /\ UNCHANGED available

\* line 217: with process.lock
Line217(t) ==
    /\ at[t] = "217"
    /\ acquire_process(t, t)
    /\ goto(t, "218")
    /\ ActorFrame
    /\ UNCHANGED <<available, processes, lock, loc>>

\* a release list drawn up to the total, random.randint(1, allocation[i])
\* replaced by random.randint(1, total[i])
Line218_any_amount(t) ==
    /\ at[t] = "218"
    /\ release_process(t)
    /\ \E release_list \in [Res -> 0..largest(total)] :
          /\ \A i \in Res :
                IF processes[t].allocation[i] > 0
                THEN /\ 1 <= release_list[i]
                     /\ release_list[i] <= total[i]
                ELSE release_list[i] = 0
          /\ IF \E i \in Res : release_list[i] > 0
             THEN /\ loc' = [loc EXCEPT ![t].request = release_list]
                  /\ goto(t, "128")
             ELSE /\ loc' = [loc EXCEPT ![t] = cleared(@)]
                  /\ goto(t, "237")
    /\ ActorFrame
    /\ UNCHANGED <<available, processes, lock>>

\* lines 218-226: the release list, random.randint(1, allocation[i]) where
\* something is held; the call if some amount is positive
Line218(t) ==
    /\ at[t] = "218"
    /\ release_process(t)
    /\ \E release_list \in [Res -> 0..largest(total)] :
          /\ \A i \in Res :
                IF processes[t].allocation[i] > 0
                THEN /\ 1 <= release_list[i]
                     /\ release_list[i] <= processes[t].allocation[i]
                ELSE release_list[i] = 0
          /\ IF \E i \in Res : release_list[i] > 0
             THEN /\ loc' = [loc EXCEPT ![t].request = release_list]
                  /\ goto(t, "128")
             ELSE /\ loc' = [loc EXCEPT ![t] = cleared(@)]
                  /\ goto(t, "237")
    /\ ActorFrame
    /\ UNCHANGED <<available, processes, lock>>

\* line 227, release_resources line 128: with self.lock
Line128(t) ==
    /\ at[t] = "128"
    /\ acquire_lock(t)
    /\ loc' = [loc EXCEPT ![t].call = entered("release")]
    /\ goto(t, "131")
    /\ ActorFrame
    /\ UNCHANGED <<available, processes, plock>>

\* line 131: with process.lock
Line131(t) ==
    /\ at[t] = "131"
    /\ acquire_process(t, t)
    /\ goto(t, "132")
    /\ ActorFrame
    /\ UNCHANGED <<available, processes, lock, loc>>

\* lines 132-144: the over-release return, or the release loop, update_need
\* and the status
Line132(t) ==
    /\ at[t] = "132"
    /\ release_process(t)
    /\ IF over_release(processes[t], loc[t].request)
       THEN /\ lock' = release(lock)
            /\ loc' = [loc EXCEPT ![t] = cleared(@)]
            /\ goto(t, "237")
            /\ UNCHANGED <<available, processes>>
       ELSE /\ available' = released(St, t, loc[t].request).available
            /\ processes' = released(St, t, loc[t].request).processes
            /\ goto(t, "146")
            /\ UNCHANGED <<lock, loc>>
    /\ ActorFrame

\* line 146: return
Line146(t) ==
    /\ at[t] = "146"
    /\ lock' = release(lock)
    /\ loc' = [loc EXCEPT ![t] = cleared(@)]
    /\ goto(t, "237")
    /\ ActorFrame
    /\ UNCHANGED <<available, processes, plock>>

\* line 232: with process.lock
Line232(t) ==
    /\ at[t] = "232"
    /\ acquire_process(t, t)
    /\ goto(t, "233")
    /\ ActorFrame
    /\ UNCHANGED <<available, processes, lock, loc>>

\* line 237 moved into the `with` block of line 232
Line233_sleep_inside(t) ==
    /\ at[t] = "233"
    /\ goto(t, "237")
    /\ loc' = [loc EXCEPT ![t] = cleared(@)]
    /\ ActorFrame
    /\ UNCHANGED <<available, processes, lock, plock>>

\* lines 233-235: the "Using resources" signals
Line233(t) ==
    /\ at[t] = "233"
    /\ release_process(t)
    /\ goto(t, "237")
    /\ loc' = [loc EXCEPT ![t] = cleared(@)]
    /\ ActorFrame
    /\ UNCHANGED <<available, processes, lock>>

\* ProcessThread.run, one step of the thread of process t
run(t) ==
    \/ Line171(t) \/ Line172(t) \/ Line174(t) \/ Line179(t) \/ Line36(t)
    \/ Sleep(t)
    \/ Line188(t) \/ Line189(t) \/ Line192(t) \/ Line193(t)
    \/ Line212(t) \/ Line213(t)
    \/ Line90(t) \/ Line93(t) \/ Line94(t) \/ Line97(t)
    \/ Line101(t) \/ Line102(t) \/ Line103(t) \/ Line106(t)
    \/ Line67(t) \/ Line68(t) \/ Line108(t)
    \/ Line109(t) \/ Line110(t)
    \/ Line118(t) \/ Line119(t) \/ Line120(t)
    \/ Line122(t) \/ Line123(t)
    \/ Line217(t) \/ Line218(t)
    \/ Line128(t) \/ Line131(t) \/ Line132(t) \/ Line146(t)
    \/ Line232(t) \/ Line233(t)

\* the controller back in the event loop: the handler's locals are gone
returned(g) ==
    [g EXCEPT !.at = "idle", !.handler = "", !.i = 0, !.scan = <<>>,
              !.todo = <<>>, !.available = <<>>, !.rows = <<>>]

\* the controller in the event loop with no ProcessThread and no timer
IdleGui ==
    [process_threads |-> {}, polling |-> FALSE, at |-> "idle",
     handler |-> "", i |-> 0, scan |-> <<>>, todo |-> <<>>,
     available |-> <<>>, rows |-> <<>>]

\* what no step of the controller changes
GuiFrame == UNCHANGED <<total, available, processes, pc, cur, ret, at, loc>>

\* QThread.isRunning
isRunning(t) == at[t] # "done"

\* update_tables, line 702: with self.banker.lock.  The tables are redrawn
\* on a tick of update_timer, on an actor's action signal and at line 566
\* of reset_simulation.
Gui702 ==
    /\ \/ gui.at = "idle" /\ gui.process_threads # {}
       \/ gui.at = "566"
    /\ acquire_lock(Gui)
    /\ gui' = [gui EXCEPT !.at = "703"]
    /\ GuiFrame
    /\ UNCHANGED <<plock, running, paused>>

\* line 703: available = self.banker.available.copy()
Gui703 ==
    /\ gui.at = "703"
    /\ lock' = release(lock)
    /\ gui' = [gui EXCEPT !.available = available, !.i = 0, !.at = "711"]
    /\ GuiFrame
    /\ UNCHANGED <<plock, running, paused>>

\* line 711: with self.processes[i].lock
Gui711 ==
    /\ gui.at = "711"
    /\ acquire_process(Gui, gui.i)
    /\ gui' = [gui EXCEPT !.at = "712"]
    /\ GuiFrame
    /\ UNCHANGED <<lock, running, paused>>

\* lines 712-715: the row of process i is copied; then the next process,
\* or line 754
Gui712 ==
    /\ gui.at = "712"
    /\ release_process(gui.i)
    /\ gui' = [gui EXCEPT !.rows = (gui.i :> processes[gui.i]) @@ @,
                          !.i = @ + 1,
                          !.at = IF gui.i + 1 < num_processes
                                 THEN "711" ELSE "754"]
    /\ GuiFrame
    /\ UNCHANGED <<lock, running, paused>>

\* lines 754, 687 and 576, is_safe_state line 86: with self.lock
Gui86 ==
    /\ gui.at \in {"754", "687", "576"}
    /\ acquire_lock(Gui)
    /\ gui' = [gui EXCEPT !.at = "67",
                          !.scan = scan_locks(processes, available,
                                              [i \in Pids |-> FALSE])]
    /\ GuiFrame
    /\ UNCHANGED <<plock, running, paused>>

\* lines 67 and 74 in the controller's is_safe_state; after the last
\* process, line 87: return.  reset_simulation, back from update_tables,
\* goes on to line 576.
Gui67 ==
    /\ gui.at = "67"
    /\ IF gui.scan = <<>>
       THEN /\ lock' = release(lock)
            /\ gui' = IF gui.handler = "reset"
                      THEN [returned(gui) EXCEPT !.at = "576"]
                      ELSE returned(gui)
            /\ UNCHANGED plock
       ELSE /\ acquire_process(Gui, Head(gui.scan))
            /\ gui' = [gui EXCEPT !.at = "68"]
            /\ UNCHANGED lock
    /\ GuiFrame
    /\ UNCHANGED <<running, paused>>

\* lines 68-71 and 75-76 in the controller's is_safe_state
Gui68 ==
    /\ gui.at = "68"
    /\ release_process(Head(gui.scan))
    /\ gui' = [gui EXCEPT !.scan = Tail(@), !.at = "67"]
    /\ GuiFrame
    /\ UNCHANGED <<lock, running, paused>>

\* check_all_processes_finished, lines 669-674, on a tick of
\* check_completion_timer
Gui669 ==
    /\ gui.at = "idle"
    /\ gui.polling
    /\ gui.process_threads # {}
    /\ gui' = [gui EXCEPT !.i = 0, !.at = "675", !.handler = "poll"]
    /\ GuiFrame
    /\ UNCHANGED <<lock, plock, running, paused>>

\* line 675, Process.is_finished line 35: with self.lock
Gui675 ==
    /\ gui.at = "675"
    /\ acquire_process(Gui, gui.i)
    /\ gui' = [gui EXCEPT !.at = "676"]
    /\ GuiFrame
    /\ UNCHANGED <<lock, running, paused>>

\* lines 675-679: an unfinished process ends the poll; after the last
\* finished one, stop_all_threads
Gui676 ==
    /\ gui.at = "676"
    /\ release_process(gui.i)
    /\ gui' = IF ~is_finished(processes[gui.i]) THEN returned(gui)
              ELSE [gui EXCEPT
                  !.i = @ + 1,
                  !.at = IF gui.i + 1 < num_processes THEN "675"
                         ELSE "593"]
    /\ GuiFrame
    /\ UNCHANGED <<lock, running, paused>>

\* stop_all_threads, lines 592-594: self.running.clear()
Gui593 ==
    /\ gui.at = "593"
    /\ running' = FALSE
    /\ gui' = [gui EXCEPT !.todo = ascending(gui.process_threads),
                          !.at = "595"]
    /\ GuiFrame
    /\ UNCHANGED <<lock, plock, paused>>

\* lines 595-596 for the next thread of the list: thread.resume() if it
\* is running; after the last one lines 601-607: the list is cleared, its
\* ProcessThread objects go, and the timers are stopped
Gui595 ==
    /\ gui.at = "595"
    /\ IF gui.todo = <<>>
       THEN /\ gui' = [gui EXCEPT !.process_threads = {},
                                  !.polling = FALSE,
                                  !.at = IF gui.handler = "reset"
                                         THEN "546" ELSE "687"]
            /\ paused' = <<>>
            /\ at' = <<>>
            /\ loc' = <<>>
       ELSE /\ IF isRunning(Head(gui.todo))
               THEN /\ paused' = [paused EXCEPT ![Head(gui.todo)] = TRUE]
                    /\ gui' = [gui EXCEPT !.at = "597"]
               ELSE /\ gui' = [gui EXCEPT !.todo = Tail(@)]
                    /\ UNCHANGED paused
            /\ UNCHANGED <<at, loc>>
    /\ UNCHANGED <<total, available, processes, pc, cur, ret>>
    /\ UNCHANGED <<lock, plock, running>>

\* line 597: thread.wait(2000) returns when the thread has left run().  An
\* actor that is past the gate has at most one call and one sleep of at
\* most 0.8 s before it tests the run flag, so the wait does not time out.
Gui597 ==
    /\ gui.at = "597"
    /\ ~isRunning(Head(gui.todo))
    /\ gui' = [gui EXCEPT !.todo = Tail(@), !.at = "595"]
    /\ GuiFrame
    /\ UNCHANGED <<lock, plock, running, paused>>

\* pause_simulation, lines 643-648
pause_simulation ==
    /\ gui.at = "idle"
    /\ gui.process_threads # {}
    /\ paused' = [t \in DOMAIN paused |->
                     IF isRunning(t) THEN FALSE ELSE paused[t]]
    /\ gui' = [gui EXCEPT !.polling = FALSE]
    /\ GuiFrame
    /\ UNCHANGED <<lock, plock, running>>

\* resume_simulation, lines 655-660
resume_simulation ==
    /\ gui.at = "idle"
    /\ gui.process_threads # {}
    /\ paused' = [t \in DOMAIN paused |->
                     IF isRunning(t) THEN TRUE ELSE paused[t]]
    /\ gui' = [gui EXCEPT !.polling = TRUE]
    /\ GuiFrame
    /\ UNCHANGED <<lock, plock, running>>

\* start_simulation, lines 613-633: nothing while ProcessThreads exist;
\* otherwise the run flag is set, one ProcessThread per process is started
\* with its gate open, and both timers are started
start_simulation ==
    /\ gui.at = "idle"
    /\ IF gui.process_threads # {}
       THEN UNCHANGED <<running, paused, at, loc, gui>>
       ELSE /\ running' = TRUE
            /\ paused' = [t \in Pids |-> TRUE]
            /\ at' = [t \in Pids |-> "171"]
            /\ loc' = [t \in Pids |-> NoLocals]
            /\ gui' = [gui EXCEPT !.process_threads = Pids,
                                  !.polling = TRUE]
    /\ UNCHANGED <<total, available, processes, pc, cur, ret>>
    /\ UNCHANGED <<lock, plock>>

\* reset_simulation, line 544: stop_all_threads, whose line 592 skips to
\* the timers when there is no ProcessThread
reset_simulation ==
    /\ gui.at = "idle"
    /\ gui' = [gui EXCEPT !.handler = "reset",
                          !.polling = IF gui.process_threads # {}
                                      THEN @ ELSE FALSE,
                          !.at = IF gui.process_threads # {}
                                 THEN "593" ELSE "546"]
    /\ GuiFrame
    /\ UNCHANGED <<lock, plock, running, paused>>

\* reset_simulation, lines 546-564: a new run flag, new processes with new
\* locks, a new manager and the initial allocation.  No ProcessThread
\* exists here, so nothing can run between these lines.
Gui546 ==
    /\ gui.at = "546"
    /\ \E max_demands \in ActorDemands :
           \E st \in after_reset(total, max_demands) :
               /\ available' = st.available
               /\ processes' = st.processes
               /\ plock' = [i \in DOMAIN max_demands |-> Free]
    /\ lock' = Free
    /\ running' = FALSE
    /\ gui' = [gui EXCEPT !.at = "566"]
    /\ UNCHANGED <<total, pc, cur, ret, paused, at, loc>>

\* one step of the controller
controller ==
    \/ Gui702 \/ Gui703 \/ Gui711 \/ Gui712
    \/ Gui86 \/ Gui67 \/ Gui68
    \/ Gui669 \/ Gui675 \/ Gui676
    \/ Gui593 \/ Gui595 \/ Gui597
    \/ pause_simulation \/ resume_simulation
    \/ start_simulation \/ reset_simulation \/ Gui546

\* MainWindow.__init__ ends with reset_simulation (line 482): processes
\* with their initial allocation, no ProcessThread, the controller idle
ThreadsInit ==
    \E max_demands \in ActorDemands :
        \E st \in after_reset(ActorTotal, max_demands) :
            /\ total = ActorTotal
            /\ available = st.available
            /\ processes = st.processes
            /\ pc = "idle"
            /\ cur = NoCall
            /\ ret = NoResult
            /\ lock = Free
            /\ plock = [i \in DOMAIN max_demands |-> Free]
            /\ running = FALSE
            /\ paused = <<>>
            /\ at = <<>>
            /\ loc = <<>>
            /\ gui = IdleGui

NextThreads ==
    \/ \E t \in DOMAIN at : Line171(t)
    \/ \E t \in DOMAIN at : Line172(t)
    \/ \E t \in DOMAIN at : Line174(t)
    \/ \E t \in DOMAIN at : Line179(t)
    \/ \E t \in DOMAIN at : Line36(t)
    \/ \E t \in DOMAIN at : Line188(t)
    \/ \E t \in DOMAIN at : Line189(t)
    \/ \E t \in DOMAIN at : Line192(t)
    \/ \E t \in DOMAIN at : Line193(t)
    \/ \E t \in DOMAIN at : Line212(t)
    \/ \E t \in DOMAIN at : Line213(t)
    \/ \E t \in DOMAIN at : Line90(t)
    \/ \E t \in DOMAIN at : Line93(t)
    \/ \E t \in DOMAIN at : Line94(t)
    \/ \E t \in DOMAIN at : Line97(t)
    \/ \E t \in DOMAIN at : Line101(t)
    \/ \E t \in DOMAIN at : Line102(t)
    \/ \E t \in DOMAIN at : Line103(t)
    \/ \E t \in DOMAIN at : Line106(t)
    \/ \E t \in DOMAIN at : Line67(t)
    \/ \E t \in DOMAIN at : Line68(t)
    \/ \E t \in DOMAIN at : Line108(t)
    \/ \E t \in DOMAIN at : Line109(t)
    \/ \E t \in DOMAIN at : Line110(t)
    \/ \E t \in DOMAIN at : Line118(t)
    \/ \E t \in DOMAIN at : Line119(t)
    \/ \E t \in DOMAIN at : Line120(t)
    \/ \E t \in DOMAIN at : Line122(t)
    \/ \E t \in DOMAIN at : Line123(t)
    \/ \E t \in DOMAIN at : Line217(t)
    \/ \E t \in DOMAIN at : Line218(t)
    \/ \E t \in DOMAIN at : Line128(t)
    \/ \E t \in DOMAIN at : Line131(t)
    \/ \E t \in DOMAIN at : Line132(t)
    \/ \E t \in DOMAIN at : Line146(t)
    \/ \E t \in DOMAIN at : Line232(t)
    \/ \E t \in DOMAIN at : Line233(t)
    \/ \E t \in DOMAIN at : Sleep(t)
    \/ controller

SpecThreads == ThreadsInit /\ [][NextThreads]_vars

\* the ids a ProcessThread can have
ActorIds == UNION {DOMAIN max_demands : max_demands \in ActorDemands}

\* The same threads under a scheduler that lets every started thread run:
\* a ProcessThread that can take its next step (its lock is free, its gate
\* is open, its sleep is over) takes it, and stop_all_threads, once
\* entered, goes on from statement to statement.
SpecThreadsFair ==
    /\ SpecThreads
    /\ \A t \in ActorIds : WF_vars(t \in DOMAIN at /\ run(t))
    /\ WF_vars(Gui593 \/ Gui595 \/ Gui597)

----------------------------------------------------------------------------
(* The simulation from command to command: every manager call is one step  *)
(* (the calls are linearized by BankerAlgorithm.lock), and a ProcessThread *)
(* is an object of its own, told apart from the process it works for.      *)

SimTotal == <<3>>

\* demand tables generate_random_max_demand returns for three units
SimDemands ==
    {(0 :> <<2>>) @@ (1 :> <<1>>) @@ (2 :> <<1>>),
     (0 :> <<2>>) @@ (1 :> <<1>>)}

\* line 613 changed to never see the list
threads_exist_never(process_threads) == FALSE

\* line 613: if self.process_threads
threads_exist(process_threads) == process_threads # {}

\* a ProcessThread as start_simulation makes it, lines 620-626
NewThread(process_id) ==
    [process_id |-> process_id, iteration |-> 0, request |-> <<>>,
     reported |-> FALSE]

SimGui ==
    [process_threads |-> {}, polling |-> FALSE, at |-> "idle",
     handler |-> "", todo |-> <<>>, message |-> ""]

\* what no step of a ProcessThread changes
SimActorFrame == UNCHANGED <<total, pc, cur, ret, lock, plock, running,
                            paused, gui>>

\* what no step of the controller changes
SimGuiFrame == UNCHANGED <<total, available, processes, pc, cur, ret, lock,
                          plock>>

\* line 171: while self.running.is_set() and iteration < max_iterations
Actor171(id) ==
    /\ at[id] = "171"
    /\ IF running /\ loc[id].iteration < max_iterations
       THEN at' = [at EXCEPT ![id] = "172"]
       ELSE at' = [at EXCEPT ![id] = "done"]
    /\ SimActorFrame
    /\ UNCHANGED <<available, processes, loc>>

\* lines 218-224: random.randint(1, allocation[i]) of what is held
release_lists(process) ==
    {release_list \in [DOMAIN process.allocation -> 0..largest(total)] :
        \A j \in DOMAIN release_list :
            IF process.allocation[j] > 0
            THEN /\ release_list[j] >= 1
                 /\ release_list[j] <= process.allocation[j]
            ELSE release_list[j] = 0}

\* lines 172-229 up to the manager call: the gate, the second test of the
\* run flag, iteration += 1, the idling of a finished process, the choice
\* of an action and its request or release list; a request list of zeros
\* for a process in need is logged as "Waiting for resources..."
Actor172(id) ==
    /\ at[id] = "172"
    /\ paused[id]
    /\ IF ~running
       THEN at' = [at EXCEPT ![id] = "done"] /\ UNCHANGED loc
       ELSE LET process == processes[loc[id].process_id]
                counted == [loc[id] EXCEPT !.iteration = @ + 1]
            IN  IF is_finished(process)
                THEN /\ at' = [at EXCEPT ![id] = "237"]
                     /\ loc' = [loc EXCEPT ![id] = counted]
                ELSE \/ \E request \in initial_requests(process, available) :
                           IF \E j \in DOMAIN request : request[j] > 0
                           THEN /\ at' = [at EXCEPT ![id] = "208"]
                                /\ loc' = [loc EXCEPT ![id] =
                                       [counted EXCEPT !.request = request]]
                           ELSE /\ at' = [at EXCEPT ![id] = "237"]
                                /\ loc' = [loc EXCEPT ![id] =
                                       [counted EXCEPT !.reported = TRUE]]
                     \/ \E release_list \in release_lists(process) :
                           IF \E j \in DOMAIN release_list :
                                  release_list[j] > 0
                           THEN /\ at' = [at EXCEPT ![id] = "227"]
                                /\ loc' = [loc EXCEPT ![id] =
                                       [counted EXCEPT
                                           !.request = release_list]]
                           ELSE /\ at' = [at EXCEPT ![id] = "237"]
                                /\ loc' = [loc EXCEPT ![id] = counted]
                     \/ /\ at' = [at EXCEPT ![id] = "237"]
                        /\ loc' = [loc EXCEPT ![id] = counted]
    /\ SimActorFrame
    /\ UNCHANGED <<available, processes>>

\* lines 208-210: request_resources and its message; a denial is logged
Actor208(id) ==
    /\ at[id] = "208"
    /\ \E o \in {request_outcome([available |-> available,
                                  processes |-> processes],
                                 loc[id].process_id, loc[id].request)} :
          /\ available' = o.available
          /\ processes' = o.processes
          /\ loc' = [loc EXCEPT ![id].request = <<>>,
                                ![id].reported = @ \/ ~o.ret.ok]
    /\ at' = [at EXCEPT ![id] = "237"]
    /\ SimActorFrame

\* lines 227-229: release_resources and its message
Actor227(id) ==
    /\ at[id] = "227"
    /\ \E o \in {release_outcome([available |-> available,
                                  processes |-> processes],
                                 loc[id].process_id, loc[id].request)} :
          /\ available' = o.available
          /\ processes' = o.processes
    /\ loc' = [loc EXCEPT ![id].request = <<>>]
    /\ at' = [at EXCEPT ![id] = "237"]
    /\ SimActorFrame

\* lines 180 and 237: time.sleep
Actor237(id) ==
    /\ at[id] = "237"
    /\ at' = [at EXCEPT ![id] = "171"]
    /\ SimActorFrame
    /\ UNCHANGED <<available, processes, loc>>

\* the ids of n ProcessThread objects made now
new_threads(n) ==
    LET base == IF DOMAIN at = {} THEN 0
                ELSE 1 + CHOOSE x \in DOMAIN at : \A y \in DOMAIN at : x >= y
    IN  base..(base + n - 1)

\* start_simulation, lines 613-633
SimStart ==
    /\ gui.at = "idle"
    /\ IF threads_exist(gui.process_threads)
       THEN UNCHANGED <<running, paused, at, loc, gui>>
       ELSE LET ids == new_threads(num_processes)
                first == CHOOSE x \in ids : \A y \in ids : x <= y
            IN  /\ running' = TRUE
                /\ at' = [id \in ids |-> "171"] @@ at
                /\ paused' = [id \in ids |-> TRUE] @@ paused
                /\ loc' = [id \in ids |-> NewThread(id - first)] @@ loc
                /\ gui' = [gui EXCEPT !.process_threads = ids,
                                      !.polling = TRUE]
    /\ SimGuiFrame

\* pause_simulation, lines 643-648
SimPause ==
    /\ gui.at = "idle"
    /\ gui.process_threads # {}
    /\ paused' = [id \in DOMAIN paused |->
                     IF id \in gui.process_threads /\ at[id] # "done"
                     THEN FALSE ELSE paused[id]]
    /\ gui' = [gui EXCEPT !.polling = FALSE]
    /\ SimGuiFrame
    /\ UNCHANGED <<running, at, loc>>

\* resume_simulation, lines 655-660
SimResume ==
    /\ gui.at = "idle"
    /\ gui.process_threads # {}
    /\ paused' = [id \in DOMAIN paused |->
                     IF id \in gui.process_threads /\ at[id] # "done"
                     THEN TRUE ELSE paused[id]]
    /\ gui' = [gui EXCEPT !.polling = TRUE]
    /\ SimGuiFrame
    /\ UNCHANGED <<running, at, loc>>

\* check_all_processes_finished, lines 670-680, on a tick of
\* check_completion_timer: stop_all_threads when every process is finished
SimPoll ==
    /\ gui.at = "idle"
    /\ gui.polling
    /\ gui.process_threads # {}
    /\ gui' = IF \A i \in Pids : is_finished(processes[i])
              THEN [gui EXCEPT !.handler = "poll", !.at = "593"]
              ELSE gui
    /\ SimGuiFrame
    /\ UNCHANGED <<running, paused, at, loc>>

\* reset_simulation, line 544: stop_all_threads
SimReset ==
    /\ gui.at = "idle"
    /\ gui' = [gui EXCEPT !.handler = "reset",
                          !.polling = IF gui.process_threads # {}
                                      THEN @ ELSE FALSE,
                          !.at = IF gui.process_threads # {}
                                 THEN "593" ELSE "546"]
    /\ SimGuiFrame
    /\ UNCHANGED <<running, paused, at, loc>>

\* stop_all_threads, lines 592-594
Sim593 ==
    /\ gui.at = "593"
    /\ running' = FALSE
    /\ gui' = [gui EXCEPT !.todo = ascending(gui.process_threads),
                          !.at = "595"]
    /\ SimGuiFrame
    /\ UNCHANGED <<paused, at, loc>>

\* lines 595-596 for the next thread of the list; after the last one lines
\* 601-607, then line 546 of reset_simulation or lines 681-685 of the
\* completion poll: "=== All Processes Finished ==="
Sim595 ==
    /\ gui.at = "595"
    /\ IF gui.todo = <<>>
       THEN LET others == DOMAIN at \ gui.process_threads
            IN  /\ at' = [id \in others |-> at[id]]
                /\ paused' = [id \in others |-> paused[id]]
                /\ loc' = [id \in others |-> loc[id]]
                /\ gui' = IF gui.handler = "reset"
                          THEN [gui EXCEPT !.process_threads = {},
                                           !.polling = FALSE,
                                           !.at = "546"]
                          ELSE [gui EXCEPT
                                   !.process_threads = {},
                                   !.polling = FALSE,
                                   !.at = "idle",
                                   !.handler = "",
                                   !.message = "All Processes Finished"]
       ELSE /\ IF at[Head(gui.todo)] # "done"
               THEN /\ paused' = [paused EXCEPT ![Head(gui.todo)] = TRUE]
                    /\ gui' = [gui EXCEPT !.at = "597"]
               ELSE /\ gui' = [gui EXCEPT !.todo = Tail(@)]
                    /\ UNCHANGED paused
            /\ UNCHANGED <<at, loc>>
    /\ SimGuiFrame
    /\ UNCHANGED running

\* line 597: thread.wait(2000), returning when the thread has left run()
Sim597 ==
    /\ gui.at = "597"
    /\ at[Head(gui.todo)] = "done"
    /\ gui' = [gui EXCEPT !.todo = Tail(@), !.at = "595"]
    /\ SimGuiFrame
    /\ UNCHANGED <<running, paused, at, loc>>

\* reset_simulation, lines 546-589: a new run flag, new processes, a new
\* manager, the initial allocation, a cleared log
Sim546 ==
    /\ gui.at = "546"
    /\ \E max_demands \in SimDemands :
           \E st \in after_reset(total, max_demands) :
               /\ available' = st.available
               /\ processes' = st.processes
               /\ plock' = [i \in DOMAIN max_demands |-> Free]
    /\ running' = FALSE
    /\ gui' = [gui EXCEPT !.at = "idle", !.handler = "", !.message = ""]
    /\ UNCHANGED <<total, pc, cur, ret, lock, paused, at, loc>>

\* MainWindow.__init__ ends with reset_simulation (line 482)
SimInit ==
    \E max_demands \in SimDemands :
        \E st \in after_reset(SimTotal, max_demands) :
            /\ Constructed(SimTotal, st.available, st.processes)
            /\ running = FALSE
            /\ paused = <<>>
            /\ at = <<>>
            /\ loc = <<>>
            /\ gui = SimGui

NextSim ==
    \/ \E id \in DOMAIN at : Actor171(id)
    \/ \E id \in DOMAIN at : Actor172(id)
    \/ \E id \in DOMAIN at : Actor208(id)
    \/ \E id \in DOMAIN at : Actor227(id)
    \/ \E id \in DOMAIN at : Actor237(id)
    \/ SimStart \/ SimPause \/ SimResume \/ SimPoll \/ SimReset
    \/ Sim593 \/ Sim595 \/ Sim597 \/ Sim546

SpecSim == SimInit /\ [][NextSim]_vars

----------------------------------------------------------------------------
(* Properties *)

RECURSIVE SumAllocation(_, _)
SumAllocation(S, j) ==
    IF S = {} THEN 0
    ELSE LET i == CHOOSE x \in S : TRUE
         IN  processes[i].allocation[j] + SumAllocation(S \ {i}, j)

Quiescent == pc \in {"idle", "return"}

ClassicState ==
    /\ total = ClassicTotal
    /\ available = ClassicAvailable
    /\ processes = ClassicProcesses

SameVectors(i) ==
    /\ processes'[i].max_demand = processes[i].max_demand
    /\ processes'[i].allocation = processes[i].allocation
    /\ processes'[i].need = processes[i].need

\* a manager call runs from an idle state to its return
CallStep == pc = "idle" /\ pc' = "return"

\* C1. Conservation: whenever no request or release is in the middle of
\* its body, available[j] plus the allocations of all processes equals
\* total[j] for every resource j, whatever calls were granted, rejected or
\* rolled back before.
C1_Conservation ==
    Quiescent =>
        \A j \in Res : available[j] + SumAllocation(Pids, j) = total[j]

\* a request has just been rolled back while units are allocated
C1_Witness ==
    /\ pc = "return" /\ ret.msg = "unsafe"
    /\ \E j \in Res : SumAllocation(Pids, j) > 0

\* C2. Safety preservation: when the call that just completed is a granted
\* request, is_safe_state() on the resulting state answers true.
C2_SafeAfterGrant ==
    (pc = "return" /\ ret.op = "request" /\ ret.ok) =>
        is_safe_state.is_safe

\* a request for at least one unit has just been granted
C2_Witness ==
    /\ pc = "return" /\ ret.op = "request" /\ ret.ok
    /\ available # total

\* C3 as stated. A denied request leaves available and every process's
\* allocation, need and status as they were.
C3_DeniedIsNoOp ==
    [][(CallStep /\ ret'.op = "request" /\ ~ret'.ok) =>
          (available' = available /\ processes' = processes)]_vars

\* C3 amended. A denied request leaves available and every process's
\* max_demand, allocation and need as they were; the statuses too, except
\* that a request denied as unsafe leaves its requester Waiting.
C3_DeniedKeepsVectors ==
    [][(CallStep /\ ret'.op = "request" /\ ~ret'.ok) =>
          /\ available' = available
          /\ \A i \in Pids : SameVectors(i)
          /\ \E p \in Pids :
                /\ \A i \in Pids \ {p} : processes'[i] = processes[i]
                /\ processes'[p].status =
                      IF ret'.msg = "unsafe" THEN "Waiting"
                      ELSE processes[p].status]_vars

\* a request of a process that holds resources has just been denied as
\* unsafe
C3_Witness ==
    /\ pc = "return" /\ ret.msg = "unsafe"
    /\ \E i \in Pids :
          /\ processes[i].status = "Waiting"
          /\ \E j \in Res : processes[i].allocation[j] > 0

\* C4. Exact rollback: a request denied because the tentative state is
\* unsafe leaves available and the allocation and need of every process,
\* the requester included, equal to their values before the call.
C4_UnsafeDenialRestores ==
    [][(CallStep /\ ret'.msg = "unsafe") =>
          /\ available' = available
          /\ \A i \in Pids :
                /\ processes'[i].allocation = processes[i].allocation
                /\ processes'[i].need = processes[i].need]_vars

\* a request has just been denied as unsafe while every unit of some
\* resource is still available
C4_Witness ==
    /\ pc = "return" /\ ret.msg = "unsafe"
    /\ \E j \in Res : available[j] = total[j]

\* C5. Validation rejections change nothing: a request with some
\* request[j] > need[pid][j] or request[j] > available[j], and a release
\* with some release[j] > allocation[pid][j], is rejected and leaves
\* available and every process as before; on the classic configuration
\* request_resources(4, (4,0,0)) is rejected as insufficient-available.
C5_ValidationRejects ==
    pc = "idle" =>
        LET st == [available |-> available, processes |-> processes]
            Rejected(o, msgs) ==
                /\ ~o.ret.ok
                /\ o.ret.msg \in msgs
                /\ o.available = available
                /\ o.processes = processes
        IN  /\ \A p \in Pids : \A r \in Vectors :
                  (\E j \in Res : r[j] > processes[p].need[j]
                                   \/ r[j] > available[j])
                  => Rejected(request_outcome(st, p, r),
                              {"exceeds_need", "insufficient"})
            /\ \A p \in Pids : \A r \in Vectors :
                  (\E j \in Res : r[j] > processes[p].allocation[j])
                  => Rejected(release_outcome(st, p, r), {"over_release"})
            /\ ClassicState =>
                  Rejected(request_outcome(st, 4, <<4, 0, 0>>),
                           {"insufficient"})

\* on the classic configuration a request has just been rejected for
\* asking more than is available
C5_Witness ==
    /\ ClassicState
    /\ pc = "return" /\ ret.msg = "insufficient"

\* C6. Need consistency: need[i][j] = max_demand[i][j] - allocation[i][j]
\* for every process and resource, after every call and at every point of
\* a call where the process's lock is free for another thread to take.
C6_NeedConsistent ==
    \A i \in Pids : \A j \in Res :
        processes[i].need[j] =
            processes[i].max_demand[j] - processes[i].allocation[j]

\* a tentative grant of at least one unit is in place, and the safety
\* check has not yet run
C6_Witness ==
    /\ pc = "check"
    /\ \E j \in Res : cur.arg[j] > 0

\* C7. Bounds: 0 <= allocation[i][j] <= max_demand[i][j], 0 <= need[i][j]
\* and 0 <= available[j] <= total[j] between calls.
C7_Bounds ==
    Quiescent =>
        /\ \A i \in Pids : \A j \in Res :
              /\ 0 <= processes[i].allocation[j]
              /\ processes[i].allocation[j] <= processes[i].max_demand[j]
              /\ 0 <= processes[i].need[j]
        /\ \A j \in Res : 0 <= available[j] /\ available[j] <= total[j]

\* a release has just completed while some process holds its whole demand
\* of a resource that is used up
C7_Witness ==
    /\ pc = "return" /\ ret.msg = "released"
    /\ \E i \in Pids : \E j \in Res :
          /\ processes[i].allocation[j] = processes[i].max_demand[j]
          /\ processes[i].allocation[j] > 0
          /\ available[j] = 0

\* C8. A release never makes the system unsafe: an accepted release from
\* a safe state ends in a safe state; and as every other step that changes
\* available or a process keeps a safe state safe too, every state between
\* completed calls is safe once the first one is.
C8_ReleaseKeepsSafe ==
    [][(\/ CallStep /\ ret'.op = "release" /\ ret'.ok
        \/ available' # available
        \/ processes' # processes)
       => (is_safe_state.is_safe
              => _is_safe_state(available', processes').is_safe)]_vars

\* an accepted release has just completed on the classic configuration and
\* the pool holds more of resource 1 than the configuration starts with
C8_Witness ==
    /\ total = ClassicTotal
    /\ pc = "return" /\ ret.msg = "released"
    /\ available[1] > ClassicAvailable[1]

\* each process of s finds its need within available plus the allocations
\* of the processes before it in s
ValidCompletion(s) ==
    \A k \in DOMAIN s : \A j \in Res :
        processes[s[k]].need[j]
            <= available[j] + SumAllocation({s[m] : m \in 1..(k - 1)}, j)

RECURSIVE ExistsOrderingAfter(_)
\* the processes outside `done` can be put in some order, after those of
\* `done`, in which each finds its need within available plus the
\* allocations of all the processes before it; every choice of the next
\* process is tried
ExistsOrderingAfter(done) ==
    \/ done = Pids
    \/ \E i \in Pids \ done :
           /\ \A j \in Res :
                  processes[i].need[j] <= available[j] + SumAllocation(done, j)
           /\ ExistsOrderingAfter(done \cup {i})

ExistsSafeOrdering == ExistsOrderingAfter({})

\* C9. The safety check decides safety correctly: is_safe is true exactly
\* when some ordering of all processes lets each one find its need within
\* available plus the allocations of those before it; the returned
\* sequence repeats no id, is itself such a completion, and holds every
\* process exactly when is_safe is true.
C9_CheckDecidesSafety ==
    (pc = "return" /\ ret.op = "is_safe_state") =>
        /\ ret.ok <=> ExistsSafeOrdering
        /\ \A a \in DOMAIN ret.seq : \A b \in DOMAIN ret.seq :
              a # b => ret.seq[a] # ret.seq[b]
        /\ \A k \in DOMAIN ret.seq : ret.seq[k] \in Pids
        /\ ValidCompletion(ret.seq)
        /\ ret.ok <=> {ret.seq[k] : k \in DOMAIN ret.seq} = Pids

\* the check has just found a configuration unsafe after completing some
\* but not all of its processes
C9_Witness ==
    /\ pc = "return" /\ ret.op = "is_safe_state"
    /\ ~ret.ok
    /\ Len(ret.seq) > 0

\* every entry of s is the lowest id, among those not yet in s, whose need
\* fits in available plus the allocations of the entries before it
LowestIdFirst(s) ==
    \A k \in DOMAIN s : \A i \in Pids :
        (/\ i < s[k]
         /\ \A m \in 1..(k - 1) : s[m] # i)
        => \E j \in Res :
              processes[i].need[j]
                  > available[j]
                    + SumAllocation({s[m] : m \in 1..(k - 1)}, j)

\* C10. The safety check is deterministic with lowest-id-first
\* tie-breaking: every entry of its sequence is the lowest-numbered
\* unfinished process whose need fits in work; on the classic
\* configuration is_safe_state() returns exactly (true, [1,3,0,2,4]).
C10_ClassicSequence ==
    /\ LowestIdFirst(is_safe_state.safe_sequence)
    /\ ClassicState =>
          /\ is_safe_state =
                [is_safe |-> TRUE, safe_sequence |-> <<1, 3, 0, 2, 4>>]
          /\ (pc = "return" /\ ret.op = "is_safe_state")
                => ret.ok /\ ret.seq = <<1, 3, 0, 2, 4>>

\* is_safe_state() has just returned on the classic configuration
C10_Witness ==
    /\ ClassicState
    /\ pc = "return" /\ ret.op = "is_safe_state"

\* outcome o of a call made in the current state gives process pid exactly
\* r, taken from available; no other process's vectors change
MovedToProcess(o, pid, r) ==
    /\ o.available = [j \in Res |-> available[j] - r[j]]
    /\ o.processes[pid].allocation =
          [j \in Res |-> processes[pid].allocation[j] + r[j]]
    /\ o.processes[pid].need =
          [j \in Res |-> processes[pid].need[j] - r[j]]
    /\ o.processes[pid].max_demand = processes[pid].max_demand
    /\ \A i \in Pids \ {pid} :
          /\ o.processes[i].max_demand = processes[i].max_demand
          /\ o.processes[i].allocation = processes[i].allocation
          /\ o.processes[i].need = processes[i].need

\* C11. A granted request moves exactly the requested amounts from the
\* pool to the requester: available' = available - r, allocation'[pid] =
\* allocation[pid] + r, need'[pid] = need[pid] - r, and no other process's
\* vectors change; on the classic configuration request_resources(1,
\* (1,0,2)) is granted and leaves available = (2,3,0), allocation[1] =
\* (3,0,2), need[1] = (0,2,0).
C11_GrantMovesRequest ==
    [](pc = "idle" =>
          LET st == [available |-> available, processes |-> processes]
          IN  /\ \A pid \in Pids : \A r \in Vectors :
                    \A o \in {request_outcome(st, pid, r)} :
                       o.ret.ok => MovedToProcess(o, pid, r)
              /\ ClassicState =>
                    \A o \in {request_outcome(st, 1, <<1, 0, 2>>)} :
                       /\ o.ret.ok
                       /\ o.available = <<2, 3, 0>>
                       /\ o.processes[1].allocation = <<3, 0, 2>>
                       /\ o.processes[1].need = <<0, 2, 0>>)

\* the classic request of process 1 for (1,0,2) has just been granted
C11_Witness ==
    /\ total = ClassicTotal
    /\ pc = "return" /\ ret.msg = "granted"
    /\ available = <<2, 3, 0>>
    /\ processes[1].allocation = <<3, 0, 2>>
    /\ processes[0] = ClassicProcesses[0]

\* the values process i has before and after the manager call that the
\* holder of BankerAlgorithm.lock is executing: the only values a thread
\* outside the call may read if the call is all-or-nothing
CallValues(i) ==
    IF lock \in DOMAIN at /\ at[lock] \in
           {"93", "94", "97", "101", "102", "103", "106", "67", "68", "108",
            "109", "110", "118", "119", "120", "122", "123", "131", "132",
            "146"}
    THEN {loc[lock].call.processes[i],
          (IF loc[lock].call.op = "request"
           THEN request_outcome(loc[lock].call, lock, loc[lock].request)
           ELSE release_outcome(loc[lock].call, lock, loc[lock].request)
          ).processes[i]}
    ELSE {processes[i]}

\* C12. Request and release are all-or-nothing towards every other thread:
\* the row update_tables copies at lines 712-715, the need the completion
\* poll tests at line 675 and the values an actor reads outside a manager
\* call are never values of the middle of another thread's call, and a
\* finished table snapshot (line 754) has available + the sum of the copied
\* allocations = total for every resource type.
C12_AllOrNothing ==
    /\ gui.at \in {"712", "676"} => processes[gui.i] \in CallValues(gui.i)
    /\ \A u \in DOMAIN at :
          (at[u] \in {"36", "189", "213", "218", "233"} /\ lock # u)
              => processes[u] \in CallValues(u)
    /\ \A u \in DOMAIN at : at[u] = "193" => lock = u
    /\ gui.at = "703" => lock = Gui
    /\ gui.at = "754" =>
          \A j \in DOMAIN gui.available :
              gui.available[j]
                  + SumOver([i \in DOMAIN gui.rows |->
                                gui.rows[i].allocation],
                            DOMAIN gui.rows, j)
                  = total[j]

\* update_tables holds the lock of a process and is about to copy its row
\* while that process's request, already added to its allocation, is being
\* checked or rolled back
C12_Witness ==
    /\ gui.at = "712"
    /\ lock \in DOMAIN at
    /\ gui.i = lock
    /\ at[lock] \in {"106", "67", "108", "118", "119"}
    /\ ~is_safe_state.is_safe

\* the threads: every ProcessThread and the controller
Threads == DOMAIN at \cup {Gui}

\* thread x is at a `with self.lock` of the manager it has not entered yet
WaitsGlobal(x) ==
    IF x = Gui THEN gui.at \in {"566", "754", "687", "576"}
    ELSE at[x] \in {"90", "128", "192"}

\* the process whose lock thread x is about to take, if any
WaitsProcess(x) ==
    IF x = Gui
    THEN IF gui.at \in {"711", "675"} THEN {gui.i}
         ELSE IF gui.at = "67" /\ gui.scan # <<>> THEN {Head(gui.scan)}
         ELSE {}
    ELSE IF at[x] \in {"179", "188", "212", "93", "102", "109", "119",
                       "122", "131", "217", "232"}
         THEN {x}
         ELSE IF at[x] = "67" /\ loc[x].scan # <<>>
         THEN {Head(loc[x].scan)}
         ELSE {}

\* the threads that hold a lock thread x is waiting for
WaitsOn(x) ==
    ((IF WaitsGlobal(x) THEN {lock} ELSE {})
        \cup {plock[i] : i \in WaitsProcess(x)}) \ {Free}

\* no thread waits for a lock it holds, and no chain of threads waiting for
\* each other's locks closes
NoWaitCycle ==
    \A x \in Threads :
        /\ x \notin WaitsOn(x)
        /\ \A y \in WaitsOn(x) :
              /\ x \notin WaitsOn(y)
              /\ \A z \in WaitsOn(y) : x \notin WaitsOn(z)

\* the process locks thread x holds
HeldProcessLocks(x) == {i \in DOMAIN plock : plock[i] = x}

\* C13. Lock ordering is uniform and deadlock-free: a thread that takes
\* BankerAlgorithm.lock holds no process lock, a thread that takes a
\* process lock holds no other process lock (it holds nothing or the global
\* lock only), no thread waits for a lock it holds itself, and no state has
\* threads waiting in a cycle for each other's locks.
C13_LockOrder ==
    [][/\ \A x \in Threads :
             /\ (lock' = x /\ lock # x) => HeldProcessLocks(x) = {}
             /\ \A i \in DOMAIN plock :
                   (plock'[i] = x /\ plock[i] # x)
                       => HeldProcessLocks(x) = {}
       /\ NoWaitCycle']_vars

\* the controller waits for the lock of a process whose actor is inside a
\* manager call, while the other actor waits for the manager's lock
C13_Witness ==
    \E t \in DOMAIN at : \E u \in DOMAIN at :
        /\ gui.at = "711"
        /\ plock[gui.i] = t
        /\ lock = t
        /\ at[u] \in {"90", "128"}

\* the lines of ProcessThread.run's manager calls that lie inside the
\* `with self.lock` block of request_resources or release_resources
CallBody ==
    {"93", "94", "97", "101", "102", "103", "106", "67", "68", "108", "109",
     "110", "118", "119", "120", "122", "123", "131", "132", "146"}

\* the threads that are executing the body of a manager call
Executing ==
    {t \in DOMAIN at : at[t] \in CallBody}
        \cup (IF gui.at \in {"67", "68"} THEN {Gui} ELSE {})

\* what the call that actor t is in returns when nothing else runs
call_outcome(t) ==
    IF loc[t].call.op = "request"
    THEN request_outcome(loc[t].call, t, loc[t].request)
    ELSE release_outcome(loc[t].call, t, loc[t].request)

\* C14. Admission decisions are linearized: at most one thread at a time
\* is inside the body of request_resources, release_resources or
\* is_safe_state, and it holds BankerAlgorithm.lock; available and the
\* processes change only in steps of that thread (or when reset_simulation
\* replaces them); and the call an actor returns from leaves exactly the
\* state that the whole call, run alone, makes of the state it found when
\* it acquired the lock.
C14_Linearized ==
    [][/\ \A t \in Executing' : Executing' = {t} /\ lock' = t
       /\ <<available, processes>> # <<available', processes'>>
             => \/ gui.at = "546"
                \/ /\ lock \in DOMAIN at
                   /\ at[lock] \in CallBody
                   /\ at'[lock] # at[lock]
       /\ \A t \in DOMAIN at :
             (at[t] \in CallBody /\ at'[t] \notin CallBody)
                 => \A o \in {call_outcome(t)} :
                       /\ available' = o.available
                       /\ processes' = o.processes]_vars

\* an actor is about to return from a request it rolled back as unsafe
\* while the other actor waits for the lock
C14_Witness ==
    \E t \in DOMAIN at : \E u \in DOMAIN at :
        /\ at[t] = "123"
        /\ at[u] \in {"90", "128"}

\* the lines at which an actor is suspended or has left run(): the test of
\* the loop, the pause gate and the test after it, the two sleeps
Suspended == {"171", "172", "174", "180", "237", "done"}

\* C18. No actor suspends while holding a lock: an actor that is sleeping
\* between iterations, waiting at the pause gate or gone holds neither
\* BankerAlgorithm.lock nor any process lock; the gate is tested at line 172
\* only, so an actor whose gate was closed while it was inside a manager
\* call is not held up before the call has returned.
C18_NoLockWhileSuspended ==
    \A t \in DOMAIN at :
        /\ at[t] \in Suspended
              => lock # t /\ HeldProcessLocks(t) = {}
        /\ (lock = t \/ HeldProcessLocks(t) # {})
              => at[t] \in CallBody \cup {"36", "189", "193", "213", "218",
                                          "233"}

\* one actor is held at the closed gate while the other, whose gate is
\* closed too, is still inside its manager call
C18_Witness ==
    \E t \in DOMAIN at : \E u \in DOMAIN at :
        /\ at[t] = "172" /\ ~paused[t]
        /\ ~paused[u] /\ lock = u /\ at[u] \in CallBody

\* how far an actor is in its iteration: before its manager call, inside
\* it, after it, at the top of the loop, gone
Stage(line) ==
    IF line \in {"179", "36", "188", "189", "192", "193", "217", "218",
                 "90", "128"} THEN 1
    ELSE IF line \in CallBody THEN 2
    ELSE IF line \in {"212", "213", "232", "233", "180", "237"} THEN 3
    ELSE IF line \in {"171", "172", "174"} THEN 4
    ELSE 5

\* stop_all_threads has cleared the run flag and not yet dropped the
\* ProcessThreads
Stopping == ~running /\ at # <<>>

\* C19 as stated: after the stop has cleared the run flag no actor gets to
\* the entry of a manager call; the only call it may still be in is one it
\* had begun before.
C19_NoCallBegunAfterStop ==
    [][Stopping =>
          \A t \in DOMAIN at :
              (t \in DOMAIN at' /\ at'[t] \in {"90", "128"})
                  => at[t] \in {"90", "128"}]_vars

\* C19. Cancellation terminates every actor: once stop_all_threads has
\* cleared the run flag, every actor whose gate it has reopened leaves its
\* loop, and so the stop gets every actor out of run(); from the moment the
\* flag is clear no actor starts another iteration, it only moves on
\* through the iteration it is in, whose single manager call it may enter
\* after the stop.
C19_StopTerminates ==
    /\ \A t \in ActorIds :
          (Stopping /\ t \in DOMAIN at /\ paused[t])
              ~> (t \notin DOMAIN at \/ at[t] = "done")
    /\ Stopping ~> (\A t \in DOMAIN at : at[t] = "done")
    /\ [][Stopping =>
             \A t \in DOMAIN at :
                 t \in DOMAIN at' =>
                     /\ loc'[t].iteration = loc[t].iteration
                     /\ Stage(at'[t]) >= Stage(at[t])]_vars

\* the run flag is clear while one actor is in the middle of a manager
\* call, one is held at the closed pause gate
C19_Witness ==
    /\ Stopping
    /\ \E t \in DOMAIN at : \E u \in DOMAIN at :
          /\ at[t] \in CallBody
          /\ at[u] = "172" /\ ~paused[u]

\* the ProcessThreads that have not left run()
Live == {id \in DOMAIN at : at[id] # "done"}

\* every ProcessThread of the run has left run() with the run flag still
\* set: each has done max_iterations iterations
RunOver == at # <<>> /\ Live = {} /\ running

\* C15. Liveness of the simulation: with generated demands, when all
\* actors have stopped either every process is Finished or every process
\* that is not has been reported by the simulation, the only reports of
\* that kind the program has being the "Waiting for resources..." line and
\* the denial message of a request.
C15_NoSilentEnd ==
    RunOver =>
        \/ \A i \in Pids :
              \/ is_finished(processes[i])
              \/ \E id \in DOMAIN at :
                    loc[id].process_id = i /\ loc[id].reported
        \/ ~GeneratedDemand

\* C20. One actor per process: under any sequence of start, pause, resume
\* and reset commands and completion detections no two ProcessThreads that
\* are still running work for the same process, so no two manager calls of
\* one process are in flight together; start makes no ProcessThread while
\* the list has one, and the list is cleared only when each of its
\* ProcessThreads has left run().
C20_OneActorPerProcess ==
    [][/\ \A a \in Live' : \A b \in Live' :
             a # b => loc'[a].process_id # loc'[b].process_id
       /\ gui.process_threads # {} => DOMAIN at' \subseteq DOMAIN at
       /\ (gui.process_threads # {} /\ gui'.process_threads = {})
             => gui.process_threads \cap Live = {}]_vars

\* a simulation started again after a completion detection: every process
\* has its new ProcessThread running, and no other
C20_Witness ==
    /\ gui.message = "All Processes Finished"
    /\ Cardinality(Live) = num_processes
    /\ \E id \in Live : loc[id].iteration > 0

\* C16. Finished is terminal: once a process's status is Finished no
\* request_resources or release_resources call changes it to Waiting or
\* Running.
C16_FinishedIsTerminal ==
    [][\A i \in Pids :
          processes[i].status = "Finished"
              => processes'[i].status = "Finished"]_vars

\* C17. Status Finished coincides with zero need: between completed calls,
\* in a run started from fresh processes with generated demands, a
\* process's status is Finished if and only if its need is all zeros.
C17_FinishedIffZeroNeed ==
    Quiescent =>
        \/ \A i \in Pids :
              processes[i].status = "Finished" <=> is_finished(processes[i])
        \/ ~GeneratedDemand

----------------------------------------------------------------------------
(* request_resources step by step from any safe configuration, with the    *)
(* completion poll of check_all_processes_finished reading one process at  *)
(* a time between the steps.                                               *)

\* any configuration of available, allocation and need that
\* _is_safe_state accepts, the controller idle
SafeStart ==
    /\ \E avail \in [FreshRes -> AnyVals] :
          \E allocation \in [0..(NumProcs - 1) -> [FreshRes -> AnyVals]] :
              \E need \in [0..(NumProcs - 1) -> [FreshRes -> AnyVals]] :
                  Constructed([j \in FreshRes |->
                                  avail[j]
                                  + SumOver(allocation, DOMAIN allocation, j)],
                              avail,
                              [i \in DOMAIN allocation |->
                                  AnyProcess(allocation[i], need[i])])
    /\ running = FALSE
    /\ paused = <<>>
    /\ at = <<>>
    /\ loc = <<>>
    /\ gui = IdleGui
    /\ is_safe_state.is_safe

\* check_all_processes_finished, line 669, on a tick of check_finished_timer
Poll669 ==
    /\ gui.at = "idle"
    /\ gui' = [gui EXCEPT !.i = 0, !.at = "675", !.handler = "poll"]
    /\ GuiFrame
    /\ UNCHANGED <<lock, plock, running, paused>>

NextPoll ==
    \/ \E process_id \in Pids : \E request \in [Res -> AnyVals] :
           RequestEnter(process_id, request)
    \/ GrantStep
    \/ SafetyCheck
    \/ RollbackStep
    \/ Deny
    \/ Return
    \/ Poll669
    \/ Gui675
    \/ Gui676

SpecPoll == SafeStart /\ [][NextPoll]_vars

----------------------------------------------------------------------------
(* reset_simulation line by line.  It runs in the GUI thread after          *)
(* stop_all_threads, so no ProcessThread runs beside it: the generation    *)
(* and the construction are one step, the initial allocation pass is one   *)
(* step per process of the safe sequence, the report of lines 576-581 is   *)
(* the last.                                                               *)

ResetProcs == 4
MaxSpin == 3

\* the values of the resource spinboxes: the first one anywhere in its
\* range, the others at their minimum (setMinimum(1))
SpinValues ==
    {s \in [FreshRes -> 1..MaxSpin] : \A j \in FreshRes \ {1} : s[j] = 1}

\* the controller in reset_simulation: its line, the demands drawn before
\* the scaling, the safe sequence and the index of the pass, the report
ResetGui ==
    [at |-> "idle", drawn |-> <<>>, seq |-> <<>>, idx |-> 0, log |-> ""]

\* lines 548-562: total_resources, generate_random_max_demand, the new
\* processes; every table this can build, with the demands as drawn
reset_tables ==
    UNION {
        {[total |-> total_resources,
          drawn |-> max_demands,
          processes |-> [i \in DOMAIN max_demands |->
                            NewProcess(scale_demands(total_resources,
                                                     max_demands)[i])]] :
            max_demands \in [0..(ResetProcs - 1) -> Demands(total_resources)]} :
        total_resources \in SpinValues}

\* MainWindow.__init__ line 482: the first reset_simulation, at line 564
ResetInit ==
    /\ \E r \in reset_tables :
          /\ Constructed(r.total, r.total, r.processes)
          /\ gui = [ResetGui EXCEPT !.at = "511", !.drawn = r.drawn]
    /\ running = FALSE
    /\ paused = <<>>
    /\ at = <<>>
    /\ loc = <<>>

ResetFrame == UNCHANGED <<pc, cur, ret, lock, running, paused, at, loc>>

\* the Reset button: lines 544-562
Reset546 ==
    /\ gui.at = "idle"
    /\ \E r \in reset_tables :
          /\ total' = r.total
          /\ available' = r.total
          /\ processes' = r.processes
          /\ plock' = [i \in DOMAIN r.processes |-> Free]
          /\ gui' = [ResetGui EXCEPT !.at = "511", !.drawn = r.drawn]
    /\ ResetFrame

\* initial_safe_allocation, lines 511-513
Reset511 ==
    /\ gui.at = "511"
    /\ LET s == is_safe_state
       IN  gui' = IF ~s.is_safe \/ s.safe_sequence = <<>>
                  THEN [gui EXCEPT !.at = "576"]
                  ELSE [gui EXCEPT !.at = "516", !.seq = s.safe_sequence,
                                   !.idx = 1]
    /\ UNCHANGED <<total, available, processes, plock>>
    /\ ResetFrame

\* lines 515-541: one pass of the loop, its request drawn as at lines
\* 522-538 and made through request_resources
Reset516 ==
    /\ gui.at = "516"
    /\ IF gui.idx > Minimum(3, num_processes) \/ gui.idx > Len(gui.seq)
       THEN /\ gui' = [gui EXCEPT !.at = "576"]
            /\ UNCHANGED <<available, processes>>
       ELSE /\ \E request \in initial_requests(processes[gui.seq[gui.idx]],
                                               available) :
                  IF \E j \in DOMAIN request : request[j] > 0
                  THEN \E o \in {request_outcome(St, gui.seq[gui.idx],
                                                 request)} :
                           /\ available' = o.available
                           /\ processes' = o.processes
                  ELSE UNCHANGED <<available, processes>>
            /\ gui' = [gui EXCEPT !.idx = @ + 1]
    /\ UNCHANGED <<total, plock>>
    /\ ResetFrame

\* lines 576-581: the report on the initial state
Reset576 ==
    /\ gui.at = "576"
    /\ gui' = [gui EXCEPT
                  !.at = "idle",
                  !.log = IF is_safe_state.is_safe
                          THEN "Initial state is SAFE."
                          ELSE "WARNING: Initial state is UNSAFE!"]
    /\ UNCHANGED <<total, available, processes, plock>>
    /\ ResetFrame

NextReset ==
    \/ Reset546
    \/ Reset511
    \/ Reset516
    \/ Reset576

SpecReset == ResetInit /\ [][NextReset]_vars

----------------------------------------------------------------------------
(* The meaning of the statuses *)

Holds(i) == \E j \in Res : processes[i].allocation[j] > 0

Needs(i) == \E j \in Res : processes[i].need[j] > 0

\* Running while holding nothing
RunningEmpty(i) == processes[i].status = "Running" /\ ~Holds(i)

\* C21 as stated. Between completed manager calls a process whose status
\* is Running holds a non-zero allocation and has outstanding need.
C21_RunningHoldsAndNeeds ==
    Quiescent =>
        \A i \in Pids :
            processes[i].status = "Running" => Holds(i) /\ Needs(i)

\* C21 amended. Between completed manager calls a Running process has
\* outstanding need; it becomes Running with an all-zero allocation only
\* by an accepted release that leaves it holding nothing or by a granted
\* request of nothing made while it is Waiting and holds nothing.
C21_RunningNeeds ==
    /\ [](Quiescent =>
            \A i \in Pids : processes[i].status = "Running" => Needs(i))
    /\ [][\A i \in Pids :
            (RunningEmpty(i)' /\ ~RunningEmpty(i)) =>
                /\ CallStep /\ ret'.ok
                /\ \/ ret'.op = "release"
                   \/ /\ ret'.op = "request"
                      /\ processes[i].status = "Waiting"
                      /\ ~Holds(i)]_vars

\* a release has just given back all that a process held and left it
\* Running with outstanding need
C21_Witness ==
    /\ pc = "return" /\ ret.op = "release" /\ ret.ok
    /\ \E i \in Pids : RunningEmpty(i) /\ Needs(i)


\* what the step leaves and returns
Outcome == [available |-> available', processes |-> processes', ret |-> ret']

\* the step is the call request_resources(process_id, request)
is_request(process_id, request) ==
    CallStep /\ ret'.op = "request"
        /\ request_outcome(St, process_id, request) = Outcome

\* the step is the call release_resources(process_id, given)
is_release(process_id, given) ==
    CallStep /\ ret'.op = "release"
        /\ release_outcome(St, process_id, given) = Outcome

\* the step is a call that assigns the status of process i: a granted
\* request, a request denied as unsafe, or an accepted release
status_set(i) ==
    \/ \E request \in Vectors :
          is_request(i, request) /\ (ret'.ok \/ ret'.msg = "unsafe")
    \/ \E given \in Vectors : is_release(i, given) /\ ret'.ok

\* C22 as stated, its last part. Every denied request on a Running process
\* moves it to Waiting without changing its allocation.
C22_DeniedMovesToWaiting ==
    [][\A i \in Pids : \A request \in Vectors :
          (is_request(i, request) /\ ~ret'.ok
              /\ processes[i].status = "Running") =>
             /\ processes'[i].status = "Waiting"
             /\ processes'[i].allocation = processes[i].allocation]_vars

\* C22 amended. A process is Waiting exactly when the last call that
\* assigned its status (granted request, request denied as unsafe,
\* accepted release) was a request denied as unsafe, or when there has been
\* no such call since its construction; a request rejected as exceeding
\* need or as insufficient leaves the status as it was, and no denied
\* request changes the allocation.  A Waiting process has outstanding need
\* unless its max_demand is all zeros.
C22_WaitingMeaning ==
    /\ [](Quiescent =>
            \A i \in Pids :
                processes[i].status = "Waiting" =>
                    \/ Needs(i)
                    \/ \A j \in Res : processes[i].max_demand[j] = 0)
    /\ [][\A i \in Pids :
            /\ processes'[i].status = "Waiting" <=>
                  IF status_set(i) THEN ret'.msg = "unsafe"
                  ELSE processes[i].status = "Waiting"
            /\ \A request \in Vectors :
                  (is_request(i, request) /\ ~ret'.ok) =>
                     /\ processes'[i].allocation = processes[i].allocation
                     /\ processes'[i].status =
                           IF ret'.msg = "unsafe" THEN "Waiting"
                           ELSE processes[i].status]_vars

\* a request has just been rejected as insufficient while every process is
\* Running, the requester included, and every process is still Running
C22_Witness ==
    /\ pc = "return" /\ ret.msg = "insufficient"
    /\ \A i \in Pids : processes[i].status = "Running"


----------------------------------------------------------------------------
(* The calls the actors make *)

\* C23. Under every interleaving of the actors and the controller, the
\* request an actor passes to request_resources is within the need of its
\* process when the call validates it, and the release it passes to
\* release_resources is within the allocation, so no actor call is
\* rejected as exceeding need or as an over-release; a request sized
\* against an availability that has since changed is rejected only as
\* insufficient or as unsafe.  Whenever no actor is inside a manager call,
\* available plus the allocations equals total and need equals max_demand
\* minus allocation.
C23_ActorCallsValid ==
    /\ \A t \in DOMAIN at :
          /\ at[t] \in {"90", "93", "94"} =>
                ~exceeds_need(processes[t], loc[t].request)
          /\ at[t] \in {"128", "131", "132"} =>
                ~over_release(processes[t], loc[t].request)
    /\ lock \notin DOMAIN at =>
          /\ \A j \in Res : available[j] + SumAllocation(Pids, j) = total[j]
          /\ \A i \in Pids : processes[i] = update_need(processes[i])

\* an actor's request, sized when more was available, is at the
\* availability check with less available than it asks for, while its
\* process still needs all of it
C23_Witness ==
    \E t \in DOMAIN at :
        /\ at[t] = "97"
        /\ insufficient(available, loc[t].request)
        /\ ~exceeds_need(processes[t], loc[t].request)


----------------------------------------------------------------------------
(* A request for the whole remaining need *)

\* the need of the requester as the tentative-allocation loop left it, seen
\* from a state of the rollback: components below cur.i are restored
tentative_need(j) ==
    IF pc = "rollback" /\ j >= cur.i THEN processes[cur.pid].need[j]
    ELSE processes[cur.pid].need[j] - cur.arg[j]

\* the completion poll has found every process finished (line 681)
PollFired == gui.handler = "poll" /\ gui.at = "593"

----------------------------------------------------------------------------
(* A finished process in the simulation *)

\* where an actor can be while the need of its process is all zeros: at
\* the loop head, the pause gate, the finished test or a sleep, past the
\* loop, or in the request that allocates the last of the need
FinishedLines ==
    {"171", "172", "174", "179", "36", "180", "237", "done",
     "101", "102", "103", "106", "67", "68", "108", "109", "110"}

\* C25. In the simulation driven by the actors a process whose need is all
\* zeros gives nothing back: its actor starts no further request or
\* release, so until the tables are reset its need stays zero, its
\* allocation stays equal to max_demand and none of it returns to
\* available, although the safety check adds it to work.
C25_FinishedKeepsAllocation ==
    /\ [](\A t \in DOMAIN at :
            is_finished(processes[t]) => at[t] \in FinishedLines)
    /\ [][\A i \in Pids :
            (is_finished(processes[i]) /\ gui.at # "546") =>
                /\ is_finished(processes'[i])
                /\ processes'[i].allocation = processes[i].max_demand
                /\ processes'[i].max_demand = processes[i].max_demand
                /\ \A j \in Res :
                      available'[j] + processes[i].allocation[j]
                          <= total[j]]_vars

\* a Finished process holds every unit and the other process, which needs
\* them, finds nothing to request (line 213), in a state the safety check
\* calls safe because it counts the Finished process's allocation
C25_Witness ==
    /\ lock = Free
    /\ is_safe_state.is_safe
    /\ \E i \in Pids : \E k \in DOMAIN at :
          /\ processes[i].status = "Finished" /\ Holds(i)
          /\ at[k] = "213"
          /\ \E j \in Res :
                /\ available[j] = 0
                /\ processes[k].need[j] > 0
                /\ processes[i].allocation[j] = total[j]


----------------------------------------------------------------------------
(* The state a run starts from *)

\* C26. The state a run starts from is safe: every generated max_demand is
\* at most the total of its resource, the scaling never raising a drawn
\* value, so the state with nothing allocated is safe; the initial
\* allocation pass makes at most 3 requests, each through
\* request_resources, and every state of it is safe and conserving; the
\* report of reset never is "Initial state is UNSAFE".
C26_StartsSafe ==
    /\ \A i \in Pids : \A j \in Res :
          /\ processes[i].max_demand[j] <= total[j]
          /\ processes[i].max_demand[j] <= gui.drawn[i][j]
    /\ is_safe_state.is_safe
    /\ \A j \in Res : available[j] + SumAllocation(Pids, j) = total[j]
    /\ \A i \in Pids : processes[i] = update_need(processes[i])
    /\ gui.idx <= 4
    /\ Cardinality({i \in Pids : Holds(i)}) <= 3
    /\ gui.log # "WARNING: Initial state is UNSAFE!"

\* a reset has reported a safe initial state in which the pass has
\* allocated to three processes, a fourth still needs resources, and the
\* scaling has lowered a drawn demand
C26_Witness ==
    /\ gui.at = "idle"
    /\ gui.log = "Initial state is SAFE."
    /\ Cardinality({i \in Pids : Holds(i)}) = 3
    /\ \E i \in Pids : ~Holds(i) /\ Needs(i)
    /\ \E i \in Pids : \E j \in Res :
          processes[i].max_demand[j] < gui.drawn[i][j]

====
